---- MODULE Spec2Model ----
(***************************************************************************)
(* Model of the accessibility compliance engine of storyblok-ai-assistant: *)
(* WCAGValidator (lib/wcag-validator), ImageAnalyzer (lib/image-analyzer), *)
(* AccessibilityChecker (lib/accessibility-checker) and the result cache   *)
(* used by the API routes.                                                 *)
(*                                                                         *)
(* Content is a string in the program; the code only ever looks at it      *)
(* through regular-expression scans.  Here a content is the sequence of    *)
(* the markup elements those scans can see, in document order.             *)
(***************************************************************************)
EXTENDS Integers, Sequences, FiniteSets, TLC

(***************************************************************************)
(* Bounds of the model.                                                    *)
(***************************************************************************)
MaxContentLen == 2
MaxImages == 2
MaxGeminiIssues == 2
MaxResults == 7
MaxTime == 4
MaxTtl == 2
MaxClock == 15

(***************************************************************************)
(* Text values.  A template string of the program is kept as the tuple of  *)
(* its fixed text and its interpolated values, so two texts are equal      *)
(* exactly when the program's strings are.                                 *)
(***************************************************************************)
Str(t, s, a, b) == <<t, s, a, b>>
Txt(t) == Str(t, "", 0, 0)
NoText == Txt("")

\* `a || b` of the program on text values: the empty string is falsy.
OrElse(a, b) == IF a = NoText THEN b ELSE a

Max(a, b) == IF a >= b THEN a ELSE b
Min(a, b) == IF a <= b THEN a ELSE b

\* Concatenation of F(1), ..., F(n): the result of pushing inside a loop.
RECURSIVE FlatMap(_, _)
FlatMap(F(_), n) == IF n = 0 THEN << >> ELSE FlatMap(F, n - 1) \o F(n)

\* All sequences over S of length at most n.
SeqsUpTo(S, n) == UNION { [1..k -> S] : k \in 0..n }

(***************************************************************************)
(* Colours.  Color(...) of the "color" package either parses a literal or  *)
(* throws.  luminosity() is the WCAG relative luminance, kept in           *)
(* thousandths.                                                            *)
(***************************************************************************)
Colors == {"black", "gray", "white", "bad"}
ColorParses(c) == c # "bad"
Luminosity(c) == CASE c = "black" -> 0
                   [] c = "gray" -> 184
                   [] c = "white" -> 1000
                   [] OTHER -> 0

\* Color.contrast: (lighter + 0.05) / (darker + 0.05), here in hundredths.
Contrast100(c1, c2) ==
  LET l1 == Luminosity(c1)
      l2 == Luminosity(c2)
      hi == Max(l1, l2)
      lo == Min(l1, l2)
  IN ((hi + 50) * 100) \div (lo + 50)

(***************************************************************************)
(* Markup elements of a content.                                           *)
(***************************************************************************)
SrcName(i) == IF i = 1 THEN "a.jpg" ELSE IF i = 2 THEN "b.jpg" ELSE "c.jpg"

Heading(level, textLen) == [k |-> "h", level |-> level, textLen |-> textLen]
\* decls: the declarations of one style attribute, each <<property, colour>>
Style(decls) == [k |-> "style", decls |-> decls]
ListEl(items) == [k |-> "list", items |-> items]
TableEl(headers) == [k |-> "table", headers |-> headers]
Button(label, text) == [k |-> "button", label |-> label, text |-> text]
Input(label) == [k |-> "input", label |-> label]
Aria(valid) == [k |-> "aria", valid |-> valid]
\* ctxLen: length of the markup-stripped, trimmed +-200 window around the tag
Img(src, ctxLen) == [k |-> "img", src |-> src, ctxLen |-> ctxLen]
Para == [k |-> "p"]

(***************************************************************************)
(* Image descriptors {src, alt?, data?, mimeType?}.  alt is kept by the    *)
(* class the code distinguishes: "none" (undefined or ""), "blank"         *)
(* (whitespace only), "ok", "long" (over 125 characters), "generic".       *)
(* hasData stands for `image.data && image.mimeType`.                      *)
(***************************************************************************)
Image(src, alt, hasData) == [src |-> src, alt |-> alt, hasData |-> hasData]

\* !image.alt || image.alt.trim().length === 0
AltMissing(alt) == alt \in {"none", "blank"}
\* !image.alt
AltFalsy(alt) == alt = "none"
AltTooLong(alt) == alt = "long"
isGenericAltText(alt) == alt = "generic"

(***************************************************************************)
(* WCAGValidator                                                           *)
(***************************************************************************)
Result(ruleId, severity, element, message, suggestion, autoFixable) ==
  [ruleId |-> ruleId, passed |-> FALSE, severity |-> severity,
   element |-> element, message |-> message, suggestion |-> suggestion,
   autoFixable |-> autoFixable]

validateImages(images) ==
  LET element(i) == Str("Image", images[i].src, i, 0)
      one(i) ==
        IF AltMissing(images[i].alt)
        THEN << Result("1.1.1", "high", element(i),
                       Txt("Image is missing alt text"),
                       Txt("Add descriptive alt text that conveys the purpose and content of the image"),
                       TRUE) >>
        ELSE IF AltTooLong(images[i].alt)
        THEN << Result("1.1.1", "medium", element(i),
                       Txt("Alt text is too long (over 125 characters)"),
                       Txt("Shorten alt text while maintaining essential information"),
                       TRUE) >>
        ELSE IF isGenericAltText(images[i].alt)
        THEN << Result("1.1.1", "medium", element(i),
                       Txt("Alt text appears to be generic or non-descriptive"),
                       Txt("Use more specific, descriptive alt text that explains the image content"),
                       TRUE) >>
        ELSE << >>
  IN FlatMap(one, Len(images))

\* The matches of /<h([1-6])[^>]*>(.*?)<\/h[1-6]>/gi, in document order.
IsHeading(e) == e.k = "h"
Headings(content) == SelectSeq(content, IsHeading)

validateHeadings(content) ==
  LET headings == Headings(content)
      h1Count == Cardinality({i \in 1..Len(headings) : headings[i].level = 1})
      h1 == IF h1Count = 0
            THEN << Result("2.4.6", "high", NoText,
                           Txt("Page is missing an H1 heading"),
                           Txt("Add a main H1 heading that describes the page content"),
                           FALSE) >>
            ELSE IF h1Count > 1
            THEN << Result("2.4.6", "medium", NoText,
                           Txt("Page has multiple H1 headings"),
                           Txt("Use only one H1 heading per page"),
                           FALSE) >>
            ELSE << >>
      \* loop variable i of the code is 0-based: heading i here is i-1 there
      skip(i) ==
        IF i > 1 /\ headings[i].level > headings[i - 1].level + 1
        THEN << Result("1.3.1", "medium", Str("Heading", "", i, 0),
                       Str("Heading level skips from H to H", "",
                           headings[i - 1].level, headings[i].level),
                       Str("Use H instead of H to maintain proper hierarchy", "",
                           headings[i - 1].level + 1, headings[i].level),
                       TRUE) >>
        ELSE << >>
      empty(i) ==
        IF headings[i].textLen = 0
        THEN << Result("2.4.6", "high", Str("Heading", "", i, 0),
                       Txt("Heading is empty"),
                       Txt("Add descriptive text that explains the section content"),
                       FALSE) >>
        ELSE IF headings[i].textLen < 3
        THEN << Result("2.4.6", "low", Str("Heading", "", i, 0),
                       Txt("Heading text is very short"),
                       Txt("Consider using more descriptive heading text"),
                       FALSE) >>
        ELSE << >>
  IN h1 \o FlatMap(skip, Len(headings)) \o FlatMap(empty, Len(headings))

\* The matches of /style="([^"]*)"/gi, in document order.
IsStyle(e) == e.k = "style"
Styles(content) == SelectSeq(content, IsStyle)

\* style.match(/color:\s*([^;]+)/i): the first declaration whose property
\* ends in "color:", which "background-color:" does too.
FirstColor(decls) == IF Len(decls) = 0 THEN "" ELSE decls[1][2]
\* style.match(/background-color:\s*([^;]+)/i)
HasBackground(decls) == \E i \in 1..Len(decls) : decls[i][1] = "background-color"
FirstBackground(decls) ==
  decls[CHOOSE i \in 1..Len(decls) :
          /\ decls[i][1] = "background-color"
          /\ \A j \in 1..(i - 1) : decls[j][1] # "background-color"][2]

validateColorContrast(content) ==
  LET styles == Styles(content)
      one(i) ==
        LET decls == styles[i].decls
        IN IF Len(decls) > 0 /\ HasBackground(decls)
           THEN LET textColor == FirstColor(decls)
                    bgColor == FirstBackground(decls)
                    contrast == Contrast100(textColor, bgColor)
                IN IF ColorParses(textColor) /\ ColorParses(bgColor)
                   THEN IF contrast < 450
                        THEN << Result("1.4.3",
                                       IF contrast < 300 THEN "high" ELSE "medium",
                                       NoText,
                                       Str("Color contrast ratio is :1 (minimum required: 4.5:1)",
                                           "", contrast, 0),
                                       Txt("Increase contrast between text and background colors"),
                                       FALSE) >>
                        ELSE << >>
                   ELSE << Result("1.4.3", "low", NoText,
                                  Txt("Unable to parse color values for contrast checking"),
                                  Txt("Use valid CSS color values"),
                                  FALSE) >>
           ELSE << >>
  IN FlatMap(one, Len(styles))

validateSemanticStructure(content) ==
  LET list(i) ==
        IF content[i].k = "list" /\ content[i].items = 0
        THEN << Result("1.3.1", "medium", NoText,
                       Txt("List element contains no list items"),
                       Txt("Add <li> elements inside list containers or remove empty list"),
                       FALSE) >>
        ELSE << >>
      table(i) ==
        IF content[i].k = "table" /\ ~content[i].headers
        THEN << Result("1.3.1", "medium", NoText,
                       Txt("Table is missing proper headers"),
                       Txt("Add <th> elements or scope attributes to identify table headers"),
                       FALSE) >>
        ELSE << >>
  IN FlatMap(list, Len(content)) \o FlatMap(table, Len(content))

validateARIA(content) ==
  LET interactive(i) ==
        IF content[i].k = "button" /\ ~content[i].label /\ ~content[i].text
        THEN << Result("4.1.2", "high", Txt("Button element"),
                       Txt("Button is missing accessible name"),
                       Txt("Add aria-label attribute or text content to button"),
                       FALSE) >>
        ELSE IF content[i].k = "input" /\ ~content[i].label
        THEN << Result("4.1.2", "high", Txt("Input element"),
                       Txt("Input is missing accessible name"),
                       Txt("Add aria-label, aria-labelledby, or associated label element"),
                       FALSE) >>
        ELSE << >>
      aria(i) ==
        IF content[i].k = "aria" /\ ~content[i].valid
        THEN << Result("4.1.2", "low", NoText,
                       Txt("Invalid ARIA attribute: aria-"),
                       Txt("Use valid ARIA attributes according to the specification"),
                       FALSE) >>
        ELSE << >>
  IN FlatMap(interactive, Len(content)) \o FlatMap(aria, Len(content))

\* Mutation of validateContent: the ARIA check runs before the heading check.
validateContentReordered(content, images) ==
  validateImages(images)
    \o validateARIA(content)
    \o validateHeadings(content)
    \o validateColorContrast(content)
    \o validateSemanticStructure(content)


validateContent(content, images) ==
  validateImages(images)
    \o validateHeadings(content)
    \o validateColorContrast(content)
    \o validateSemanticStructure(content)
    \o validateARIA(content)

Weight(severity) == CASE severity = "high" -> 15
                      [] severity = "medium" -> 10
                      [] severity = "low" -> 5

\* results.filter(r => !r.passed).reduce((sum, r) => sum + weights[r.severity], 0)
\* over the first n results.
RECURSIVE DeductionUpTo(_, _)
DeductionUpTo(results, n) ==
  IF n = 0 THEN 0
  ELSE DeductionUpTo(results, n - 1)
         + (IF ~results[n].passed THEN Weight(results[n].severity) ELSE 0)

\* Sum of the severity weights of the first n entries of a list.
RECURSIVE WeightsUpTo(_, _)
WeightsUpTo(xs, n) ==
  IF n = 0 THEN 0 ELSE WeightsUpTo(xs, n - 1) + Weight(xs[n].severity)

\* Mutation of TotalDeduction: the `!result.passed` filter is forgotten.
TotalDeductionAll(results) == WeightsUpTo(results, Len(results))

TotalDeduction(results) == DeductionUpTo(results, Len(results))

\* Mutation of calculateScore: the clamp at 0 is forgotten.
calculateScoreNoClamp(results) == 100 - TotalDeduction(results)


calculateScore(results) == Max(0, 100 - TotalDeduction(results))

(***************************************************************************)
(* ImageAnalyzer                                                           *)
(***************************************************************************)
Analysis(altText, confidence, decorative, textContent, hasText, isComplex, long, longText) ==
  [altText |-> altText, confidence |-> confidence, decorative |-> decorative,
   textContent |-> textContent,
   accessibility |-> [hasText |-> hasText, isComplex |-> isComplex,
                      needsLongDescription |-> long,
                      suggestedLongDescription |-> longText]]

getFallbackAnalysis ==
  Analysis("Image description not available", "low", FALSE, "",
           FALSE, FALSE, FALSE, "")

\* What the reply of the vision model holds once it is read as JSON or as
\* lines of text; "" stands for a field the reply leaves out.
ParsedAnalyses ==
  { Analysis("A cat", "high", FALSE, "", FALSE, FALSE, FALSE, ""),
    Analysis("A border", "high", TRUE, "SALE", TRUE, FALSE, FALSE, ""),
    Analysis("A chart", "medium", FALSE, "SALE", TRUE, TRUE, TRUE, "Chart of sales"),
    Analysis("A diagram", "low", FALSE, "", FALSE, TRUE, TRUE, "") }
SparseAnalysis == Analysis("", "", FALSE, "", FALSE, FALSE, FALSE, "")

\* What the vision call can do: "reject" (generateContent rejects), "blocked"
\* (response.text() throws), "json" (the text holds a JSON object),
\* "badjson" (the text holds braces JSON.parse throws on), "plain" (no
\* braces). ok says that the reply was read.
Reply(kind, analysis) ==
  [ok |-> kind \in {"json", "plain"}, kind |-> kind, analysis |-> analysis]
ImageResponses ==
  { Reply("json", a) : a \in ParsedAnalyses }
    \cup { Reply("reject", getFallbackAnalysis) }
AnalyzeResponses ==
  ImageResponses
    \cup { Reply("blocked", getFallbackAnalysis),
           Reply("badjson", Analysis("A cat", "high", TRUE, "SALE", TRUE, TRUE, TRUE, "")),
           Reply("json", SparseAnalysis),
           Reply("plain", SparseAnalysis),
           Reply("plain", Analysis("A cat", "high", TRUE, "SALE", TRUE, TRUE, TRUE, "")) }

\* How a call ends: with a value, or with an exception.
Return(value) == [thrown |-> FALSE, value |-> value]
Throw == [thrown |-> TRUE, value |-> getFallbackAnalysis]

\* x || fallback on a field of the reply: a field left out is falsy.
OrDefault(x, fallback) == IF x = "" THEN fallback ELSE x

\* parseTextResponse: the values found on the lines, with their defaults;
\* suggestedLongDescription is not read from text.
parseTextResponse(response) ==
  LET a == response.analysis
  IN Analysis(OrDefault(a.altText, "Image description not available"),
              OrDefault(a.confidence, "medium"), a.decorative, a.textContent,
              a.accessibility.hasText, a.accessibility.isComplex,
              a.accessibility.needsLongDescription, "")

\* parseAnalysisResponse: the JSON object with its defaults, the text
\* parsing when there is no object, the fallback when JSON.parse throws.
parseAnalysisResponse(response) ==
  LET a == response.analysis
  IN CASE response.kind = "json" ->
            Analysis(OrDefault(a.altText, "Image description not available"),
                     OrDefault(a.confidence, "medium"), a.decorative, a.textContent,
                     a.accessibility.hasText, a.accessibility.isComplex,
                     a.accessibility.needsLongDescription,
                     a.accessibility.suggestedLongDescription)
       [] response.kind = "plain" -> parseTextResponse(response)
       [] OTHER -> getFallbackAnalysis

\* The try block of analyzeImage throws when the call or text() does.
CallThrows(response) == response.kind \in {"reject", "blocked"}

\* Mutation of analyzeImage: the catch is left out.
analyzeImageNoCatch(response) ==
  IF CallThrows(response) THEN Throw ELSE Return(parseAnalysisResponse(response))

\* try { ... return parseAnalysisResponse(text) } catch { return getFallbackAnalysis() }
analyzeImage(response) ==
  IF CallThrows(response)
  THEN Return(getFallbackAnalysis)
  ELSE Return(parseAnalysisResponse(response))

(***************************************************************************)
(* AccessibilityChecker                                                    *)
(***************************************************************************)
\* Mutation of Id: the running index is left out of the id.
IdWithoutIndex(prefix, ruleId, n) == <<prefix, ruleId, 0>>

\* Issue ids are template strings `prefix-${n}`, `wcag-${ruleId}-${n}`.
Id(prefix, ruleId, n) == <<prefix, ruleId, n>>

Issue(id, type, severity, element, description, recommendation, autoFixable) ==
  [id |-> id, type |-> type, severity |-> severity, element |-> element,
   description |-> description, recommendation |-> recommendation,
   autoFixable |-> autoFixable]

\* Mutation of mapWCAGRuleToType: the lookup never finds the rule, so the
\* `|| "semantic"` default is always taken.
mapWCAGRuleToTypeDefault(ruleId) == "semantic"

\* Mutation of mapWCAGRuleToType: rule 1.3.1 is filed under "heading".
mapWCAGRuleToTypeSkipAsHeading(ruleId) ==
  CASE ruleId = "1.1.1" -> "alt-text"
    [] ruleId = "1.4.3" -> "contrast"
    [] ruleId = "1.3.1" -> "heading"
    [] ruleId = "2.4.6" -> "heading"
    [] ruleId = "4.1.2" -> "aria"
    [] OTHER -> "semantic"

mapWCAGRuleToType(ruleId) ==
  CASE ruleId = "1.1.1" -> "alt-text"
    [] ruleId = "1.4.3" -> "contrast"
    [] ruleId = "1.3.1" -> "semantic"
    [] ruleId = "2.4.6" -> "heading"
    [] ruleId = "4.1.2" -> "aria"
    [] OTHER -> "semantic"

\* wcagResults.forEach((result, index) => { if (!result.passed) issues.push(...) })
\* index is the 0-based position in wcagResults.
ConvertWCAGResults(wcagResults) ==
  LET one(i) ==
        IF ~wcagResults[i].passed
        THEN << Issue(Id("wcag", wcagResults[i].ruleId, i - 1),
                      mapWCAGRuleToType(wcagResults[i].ruleId),
                      wcagResults[i].severity,
                      OrElse(wcagResults[i].element, Txt("Content element")),
                      wcagResults[i].message,
                      wcagResults[i].suggestion,
                      wcagResults[i].autoFixable) >>
        ELSE << >>
  IN FlatMap(one, Len(wcagResults))

\* content.match(imgRegex): the first <img> tag whose src is imageSrc;
\* the result is the stripped window around it, "" when there is none.
ImgPositions(content, imageSrc) ==
  {i \in 1..Len(content) : content[i].k = "img" /\ content[i].src = imageSrc}
extractImageContextLen(content, imageSrc) ==
  LET pos == ImgPositions(content, imageSrc)
  IN IF pos = {} THEN 0
     ELSE content[CHOOSE i \in pos : \A j \in pos : i <= j].ctxLen

hasTextAlternativeFrom50(content, imageSrc) ==
  extractImageContextLen(content, imageSrc) >= 50
hasTextAlternative(content, imageSrc) ==
  extractImageContextLen(content, imageSrc) > 50

\* An image loop that reports every image without alt text, whatever the
\* analysis says, and nothing else.
ImageIssuesAltOnly(content, image, i, analysis) ==
  IF AltFalsy(image.alt)
  THEN << Issue(Id("ai-alt-text", "", i - 1), "alt-text", "high",
                Str("Image", "", i, 0),
                Txt("Image missing alt text (AI analysis suggests it's informative)"),
                Str("Suggested alt text: ", analysis.altText, 0, 0),
                TRUE) >>
  ELSE << >>
\* The body of the image loop after the await, for image number i (1-based;
\* the code's index is i - 1 and it prints index + 1).
ImageIssues(content, image, i, analysis) ==
  (IF AltFalsy(image.alt) /\ ~analysis.decorative
   THEN << Issue(Id("ai-alt-text", "", i - 1), "alt-text", "high",
                 Str("Image", "", i, 0),
                 Txt("Image missing alt text (AI analysis suggests it's informative)"),
                 Str("Suggested alt text: ", analysis.altText, 0, 0),
                 TRUE) >>
   ELSE << >>)
  \o
  (IF analysis.accessibility.hasText /\ ~hasTextAlternative(content, image.src)
   THEN << Issue(Id("text-in-image", "", i - 1), "alt-text", "high",
                 Str("Image", "", i, 0),
                 Txt("Image contains text but no text alternative is provided"),
                 Str("Provide text alternative: ", analysis.textContent, 0, 0),
                 TRUE) >>
   ELSE << >>)
  \o
  (IF analysis.accessibility.needsLongDescription
   THEN << Issue(Id("complex-image", "", i - 1), "alt-text", "medium",
                 Str("Image", "", i, 0),
                 Txt("Complex image may need long description"),
                 IF analysis.accessibility.suggestedLongDescription # ""
                 THEN Txt(analysis.accessibility.suggestedLongDescription)
                 ELSE Txt("Consider adding a detailed description"),
                 FALSE) >>
   ELSE << >>)

\* A hierarchy check against the first heading instead of the previous one.
checkHeadingStructureFromFirst(content) ==
  LET headings == Headings(content)
      skip(i) ==
        IF i > 1 /\ headings[i].level > headings[1].level + 1
        THEN << Issue(Id("heading-skip", "", i - 1), "heading", "medium",
                      Str("Heading", "", i, 0),
                      Str("Heading level skips from h to h", "",
                          headings[1].level, headings[i].level),
                      Str("Use h instead of h", "",
                          headings[1].level + 1, headings[i].level),
                      TRUE) >>
        ELSE << >>
  IN FlatMap(skip, Len(headings))
checkHeadingStructure(content) ==
  LET headings == Headings(content)
      \* for (let i = 1; ...): heading number i here is index i - 1 there
      skip(i) ==
        IF i > 1 /\ headings[i].level > headings[i - 1].level + 1
        THEN << Issue(Id("heading-skip", "", i - 1), "heading", "medium",
                      Str("Heading", "", i, 0),
                      Str("Heading level skips from h to h", "",
                          headings[i - 1].level, headings[i].level),
                      Str("Use h instead of h", "",
                          headings[i - 1].level + 1, headings[i].level),
                      TRUE) >>
        ELSE << >>
      empty(i) ==
        IF headings[i].textLen = 0
        THEN << Issue(Id("heading-empty", "", i - 1), "heading", "high",
                      Str("Heading", "", i, 0),
                      Txt("Heading is empty"),
                      Txt("Add descriptive text to the heading"),
                      FALSE) >>
        ELSE << >>
  IN FlatMap(skip, Len(headings)) \o FlatMap(empty, Len(headings))

\* /style="[^"]*color:\s*([^;]+)[^"]*"/gi: the greedy prefix makes the
\* captured colour the one of the last declaration of the attribute.
LastColor(decls) == decls[Len(decls)][2]

\* index++ happens only when an issue is pushed: ids number the issues.
RECURSIVE checkColorContrastFrom(_, _, _)
checkColorContrastFrom(styles, i, index) ==
  IF i > Len(styles) THEN << >>
  ELSE LET decls == styles[i].decls
           dark == /\ Len(decls) > 0
                   /\ ColorParses(LastColor(decls))
                   /\ Luminosity(LastColor(decls)) < 300
       IN IF dark
          THEN << Issue(Id("contrast", "", index), "contrast", "medium",
                        Txt("Text element"),
                        Txt("Potential color contrast issue detected"),
                        Txt("Verify color contrast meets WCAG AA standards (4.5:1 ratio)"),
                        FALSE) >>
                 \o checkColorContrastFrom(styles, i + 1, index + 1)
          ELSE checkColorContrastFrom(styles, i + 1, index)

checkColorContrast(content) == checkColorContrastFrom(Styles(content), 1, 0)

\* Entries of analysis.issues as the provider sends them; "" is an absent field.
GeminiIssue(type, severity, recommendation) ==
  [type |-> type, severity |-> severity, recommendation |-> recommendation]
GeminiIssueKinds ==
  { GeminiIssue("", "medium", ""),
    GeminiIssue("aria", "high", "Add an aria-label to the navigation") }

convertGeminiAnalysisToIssues(geminiIssues) ==
  LET one(i) ==
        << Issue(Id("gemini", "", i - 1),
                 IF geminiIssues[i].type # "" THEN geminiIssues[i].type ELSE "semantic",
                 geminiIssues[i].severity,
                 Txt("Content element"),
                 Txt("Accessibility issue detected"),
                 IF geminiIssues[i].recommendation # ""
                 THEN Txt(geminiIssues[i].recommendation)
                 ELSE Txt("Review and fix accessibility issue"),
                 FALSE) >>
  IN FlatMap(one, Len(geminiIssues))

\* Array.from(new Set(xs)): a Set keeps insertion order and ignores a
\* repeated add, so what is left is the first occurrence of every string.
FirstOccurrences(xs) == {i \in 1..Len(xs) : \A j \in 1..(i - 1) : xs[j] # xs[i]}
\* A plain array of the adds: repeated strings stay.
ArrayOfAdds(xs) == xs
ArrayFromSet(xs) ==
  LET firsts == FirstOccurrences(xs)
  IN [k \in 1..Cardinality(firsts) |->
        xs[CHOOSE i \in firsts : Cardinality({j \in firsts : j <= i}) = k]]

\* Only the recommendations of the issues themselves.
SuggestionAddsBase(issues, imageAnalyses) ==
  [i \in 1..Len(issues) |-> issues[i].recommendation]
\* The strings added to the Set, in the order of the add calls.
SuggestionAdds(issues, imageAnalyses) ==
  LET issueTypes == {issues[i].type : i \in 1..Len(issues)}
      count(P(_)) == Cardinality({i \in 1..Len(imageAnalyses) : P(imageAnalyses[i].analysis)})
      decorative == count(LAMBDA a : a.decorative)
      textInImages == count(LAMBDA a : a.accessibility.hasText)
      complexImages == count(LAMBDA a : a.accessibility.needsLongDescription)
  IN [i \in 1..Len(issues) |-> issues[i].recommendation]
     \o (IF "alt-text" \in issueTypes
         THEN << Txt("Use AI-generated alt text as a starting point, then refine for your specific context") >>
         ELSE << >>)
     \o (IF "alt-text" \in issueTypes /\ decorative > 0
         THEN << Str(" image(s) appear decorative - consider using empty alt text (alt=\"\")",
                     "", decorative, 0) >>
         ELSE << >>)
     \o (IF "contrast" \in issueTypes
         THEN << Txt("Use a color contrast checker tool to verify all text meets WCAG AA standards") >>
         ELSE << >>)
     \o (IF "heading" \in issueTypes
         THEN << Txt("Structure headings hierarchically (H1 -> H2 -> H3) to create a logical document outline") >>
         ELSE << >>)
     \o (IF textInImages > 0
         THEN << Txt("Consider replacing text-in-images with actual HTML text for better accessibility") >>
         ELSE << >>)
     \o (IF complexImages > 0
         THEN << Txt("Complex images (charts, diagrams) should include detailed descriptions or data tables") >>
         ELSE << >>)

generateEnhancedSuggestions(issues, imageAnalyses) ==
  ArrayFromSet(SuggestionAdds(issues, imageAnalyses))

(***************************************************************************)
(* Inputs.                                                                 *)
(***************************************************************************)
ContentElements ==
  { Heading(1, 5), Heading(3, 0),
    Style(<< <<"color", "gray">>, <<"background-color", "white">> >>),
    Style(<< <<"color", "black">> >>),
    Input(FALSE),
    Img("a.jpg", 51) }

\* A page whose rule failures add up to more than 100 points.
HeavyContent == [i \in 1..7 |-> Input(FALSE)]
\* A clean page, and pages exercising the remaining checks.
OtherContents ==
  { HeavyContent,
    << Heading(1, 5), Para >>,
    << Heading(1, 5), Heading(1, 2), ListEl(0), TableEl(FALSE) >>,
    << Heading(1, 5), Heading(3, 5), Heading(3, 5), Heading(1, 5) >>,
    << Heading(1, 5), Button(FALSE, FALSE), Aria(FALSE), Img("a.jpg", 50),
       Style(<< <<"background-color", "bad">> >>) >> }

Contents == SeqsUpTo(ContentElements, MaxContentLen) \cup OtherContents

ImageKinds ==
  { <<"none", TRUE>>, <<"none", FALSE>>, <<"ok", TRUE>>, <<"generic", FALSE>> }
ImageListOf(ks) == [i \in DOMAIN ks |-> Image(SrcName(i), ks[i][1], ks[i][2])]
\* Image lists: the i-th descriptor has the i-th source name.
ImageLists ==
  { ImageListOf(ks) : ks \in SeqsUpTo(ImageKinds, MaxImages) }
    \cup { ImageListOf(<< <<"blank", TRUE>>, <<"long", FALSE>> >>) }

\* The checks read the content and the image list independently of each
\* other (only the text window of an analysed image links them), so the
\* inputs vary one of the two over its whole set and take the other from a
\* few representatives.
FewContents ==
  { << Heading(1, 5), Para >>,
    << Heading(1, 5), Heading(3, 0), Style(<< <<"color", "black">> >>),
       Img("a.jpg", 51), Img("b.jpg", 50) >> }
FewImageLists ==
  { << >>, ImageListOf(<< <<"none", TRUE>> >>) }
\* The worked examples of the documentation and of the test suite:
\* '<img src="a.jpg">' with [{src: "a.jpg"}], '<h1>Title</h1><h3>Sub</h3>',
\* '<h1></h1><h2>Valid</h2>', '<img src="test.jpg"><h1></h1>' with one image.
\* An image tag with nothing around it has an empty text window.
ExampleInputs ==
  { << << Img("a.jpg", 0) >>, ImageListOf(<< <<"none", FALSE>> >>) >>,
    << << Heading(1, 5), Heading(3, 3) >>, << >> >>,
    << << Heading(1, 0), Heading(2, 5) >>, << >> >>,
    << << Img("a.jpg", 0), Heading(1, 0) >>, ImageListOf(<< <<"none", FALSE>> >>) >> }
CheckInputs ==
  (Contents \X FewImageLists) \cup (FewContents \X ImageLists) \cup ExampleInputs

\* What analyzeContentAccessibility resolves to: {success: false}, or
\* {success: true, analysis: {issues: [...]}}.
ContentResponses ==
  { [success |-> FALSE, issues |-> << >>] }
    \cup { [success |-> TRUE, issues |-> g] :
             g \in SeqsUpTo(GeminiIssueKinds, MaxGeminiIssues) }

(***************************************************************************)
(* State.                                                                  *)
(***************************************************************************)
VARIABLES
  pc,            \* position of the driver: which entry point, which step
  content,       \* argument of checkContent
  images,        \* argument of checkContent (images || [])
  idx,           \* image loop: number of the image the loop is at
  started,       \* numbers of the images whose analysis has been called
  inflight,      \* AI calls awaited and not settled
  hung,          \* AI calls the provider will never settle
  settled,       \* AI calls settled so far, in order, with their responses
  wcagResults,   \* local of checkContent
  issues,        \* local of checkContent
  imageAnalyses, \* local of checkContent
  report,        \* value checkContent resolved to
  scoreArg,      \* argument of a direct calculateScore call
  scoreRet,      \* its return value
  cache,         \* the entries of the result cache, by key
  now,           \* the clock the cache reads
  setAt,         \* history: the latest set of each key (value, time, ttl)
  lastGet,       \* the get that has just returned (key, time, outcome, latest set)
  req,           \* check route: the request being served, per request slot
  routeCache,    \* check route: the entries of its CacheManager, by key
  analyzed,      \* the direct analyzeImage call that has just completed
  collaborators, \* CollaborationManager: the collaborators Map, in insertion order
  conflicts,     \* CollaborationManager: the conflicts Map, as its set of values
  detected,      \* the detectConflict call that has just returned
  resolved,      \* the resolveConflict call that has just returned
  aiCache,       \* AI routes: the entry of each route's CacheManager for one key
  aiLast,        \* AI routes: the request that has just been answered
  preferences,   \* UserPreferencesManager: per user, the array its customPrompts refers to
  arrays,        \* the customPrompts arrays on the heap, by reference
  added          \* the addCustomPrompt call that has just returned

vars == << pc, content, images, idx, started, inflight, hung, settled,
           wcagResults, issues, imageAnalyses, report, scoreArg, scoreRet,
           cache, now, setAt, lastGet, req, routeCache, analyzed,
           collaborators, conflicts, detected, resolved,
           aiCache, aiLast, preferences, arrays, added >>

checkVars == << content, images, idx, started, inflight, hung, settled,
                wcagResults, issues, imageAnalyses, report >>
scoreVars == << scoreArg, scoreRet >>
cacheVars == << cache, now, setAt, lastGet >>
routeVars == << req, routeCache >>
analyzeVars == << analyzed >>
collabVars == << collaborators, conflicts, detected, resolved >>
aiVars == << aiCache, aiLast >>
prefVars == << preferences, arrays, added >>

ImageTask(i) == <<"image", i>>
ContentTask == <<"content", 0>>

NoScore == 0 - 1
NoReport == [score |-> NoScore, issues |-> << >>, suggestions |-> << >>,
             imageAnalyses |-> << >>]

CheckIdle ==
  /\ idx = 1
  /\ started = {}
  /\ inflight = {}
  /\ hung = {}
  /\ settled = << >>
  /\ wcagResults = << >>
  /\ issues = << >>
  /\ imageAnalyses = << >>
  /\ report = NoReport

ScoreIdle ==
  /\ scoreArg = << >>
  /\ scoreRet = NoScore

Keys == {"k1", "k2"}
Values == {"v1", "v2"}
NoEntry == [present |-> FALSE, value |-> "", expiry |-> 0]
NoSet == [done |-> FALSE, value |-> "", at |-> 0, ttl |-> 0]
NoGet == [key |-> "", at |-> 0, hit |-> FALSE, value |-> "", set |-> NoSet]

CacheIdle ==
  /\ cache = [k \in Keys |-> NoEntry]
  /\ now = 0
  /\ setAt = [k \in Keys |-> NoSet]
  /\ lastGet = NoGet

(***************************************************************************)
(* Requests of the accessibility check route (POST).  A body is kept by     *)
(* what the handler reads of it: kind says whether request.json() throws   *)
(* ("malformed"), and otherwise whether `content` is absent, the empty      *)
(* string or a non-empty text; head stands for content.substring(0, 200).   *)
(***************************************************************************)
Body(kind, head, text, imgs) ==
  [kind |-> kind, head |-> head, content |-> text, images |-> imgs]
NoBody == Body("none", "", << >>, << >>)
\* Two pages of more than 200 characters that agree on the first 200, each
\* with one image: the pages differ further down, the images in their alt.
LongHead == "<h1>Report</h1> and the 184 characters after it"
NearDuplicates ==
  { Body("text", LongHead, << Heading(1, 5), Para >>,
         ImageListOf(<< <<"ok", FALSE>> >>)),
    Body("text", LongHead, << Heading(1, 5), Para, Input(FALSE) >>,
         ImageListOf(<< <<"none", FALSE>> >>)) }
RouteBodies ==
  { Body("malformed", "", << >>, << >>),
    Body("absent", "", << >>, << >>),
    Body("empty", "", << >>, << >>),
    Body("text", "<h1>Good Title</h1>", << Heading(1, 5), Para >>, << >>),
    Body("text", "<img src=\"a.jpg\">", << Img("a.jpg", 0) >>,
         ImageListOf(<< <<"none", FALSE>> >>)) }
    \cup NearDuplicates

\* HTTP status codes and the ttl of a cached report, in minutes.
BadRequest == 400
ServerError == 500
Ok == 200
CheckTtl == 15

Requests == {"r1", "r2"}
NoResponse == [status |-> 0, success |-> FALSE, error |-> "", cached |-> FALSE,
               result |-> NoReport]
NoKey == [namespace |-> "", content |-> "", imageCount |-> 0]
NoRequest == [stage |-> "idle", body |-> NoBody, key |-> NoKey, calls |-> << >>,
              response |-> NoResponse]

\* cache.generateKey("accessibility", {content: content.substring(0, 200),
\*                                     imageCount: images?.length || 0})
\* Mutation of generateKey: the length of the whole content goes into the
\* key.
generateKeyByLength(body) ==
  [namespace |-> "accessibility", content |-> body.head,
   imageCount |-> Len(body.content)]

generateKey(body) ==
  [namespace |-> "accessibility", content |-> body.head,
   imageCount |-> Len(body.images)]
RouteKeys == { generateKey(b) : b \in RouteBodies }

RouteIdle ==
  /\ req = [r \in Requests |-> NoRequest]
  /\ routeCache = [k \in RouteKeys |-> NoEntry]

\* ImageAnalyzer.analyzeImage called directly: the reply and how the call
\* ended.
NoAnalyzed == [called |-> FALSE, response |-> Reply("reject", getFallbackAnalysis),
               outcome |-> Return(getFallbackAnalysis)]
AnalyzeIdle == analyzed = NoAnalyzed

\* CollaborationManager.  Time is in minutes (Date.now() of the source is in
\* milliseconds); "" stands for an undefined currentSuggestion.  userName
\* and the data of a conflict are carried along unread and are left out.
Users == {"user1", "user2"}
ConflictTypes == {"suggestion", "accessibility", "settings"}
ActiveThreshold == 5
MaxCollabClock == 5
MaxConflicts == 1
Collaborator(userId, timestamp, activeTab, isEditing, currentSuggestion) ==
  [userId |-> userId, timestamp |-> timestamp, activeTab |-> activeTab,
   isEditing |-> isEditing, currentSuggestion |-> currentSuggestion]

\* The Partial<CollaborationState> values callers pass to
\* updateCollaboratorState.
Updates ==
  { [activeTab |-> "accessibility", isEditing |-> TRUE],
    [activeTab |-> "generator", isEditing |-> TRUE],
    [activeTab |-> "generator", isEditing |-> TRUE,
     currentSuggestion |-> "suggestion1"] }

\* `${type}-${Date.now()}`
ConflictId(type, at) == << type, at >>
ConflictIds == { ConflictId(t, at) : t \in ConflictTypes, at \in {0, ActiveThreshold} }
Conflict(conflictId, type, users) ==
  [null |-> FALSE, conflictId |-> conflictId, type |-> type, users |-> users,
   resolution |-> "defer"]
Null == [null |-> TRUE, conflictId |-> ConflictId("", 0), type |-> "",
         users |-> << >>, resolution |-> ""]
NoDetected == [called |-> FALSE, type |-> "", userId |-> "", result |-> Null]
NoResolved == [called |-> FALSE, conflictId |-> ConflictId("", 0),
               returned |-> FALSE, result |-> FALSE]

CollabIdle ==
  /\ collaborators = << >>
  /\ conflicts = {}
  /\ detected = NoDetected
  /\ resolved = NoResolved

\* The cached AI routes: the image analysis route (analysis type "full"),
\* POST /api/ai/generate-alt-text and POST /api/ai/generate-content.
\* Each route module owns a CacheManager; one request body per route is
\* followed, so each cache has one key.
AIRoutes == {"image-analysis", "alt-text", "content"}
\* The ttl the route passes to cache.set, in minutes.
AITtl(route) == IF route = "content" THEN 10 ELSE 30
NoAIRequest == [called |-> FALSE, route |-> "", failed |-> FALSE, calls |-> << >>,
                status |-> 0, cached |-> FALSE]
AIIdle ==
  /\ aiCache = [route \in AIRoutes |-> NoEntry]
  /\ aiLast = NoAIRequest

\* UserPreferencesManager.  An array is a heap object: preferences[u] is the
\* reference held by the customPrompts field of the preferences object of
\* u ("none" before u is loaded), arrays maps every reference to the
\* contents of its array.  "default" is the array of defaultPreferences;
\* the array made by a filter call of user u gets the reference u.
PrefUsers == {"user1", "user2"}
PromptNames == {"p1"}
MaxPrompts == 2
MaxPrefClock == 1
NoAdded == [called |-> FALSE, userId |-> "", name |-> ""]
PrefIdle ==
  /\ preferences = [u \in PrefUsers |-> "none"]
  /\ arrays = [ref \in PrefUsers \cup {"default"} |-> << >>]
  /\ added = NoAdded

\* A caller invokes checkContent(content, images).
InitCheck ==
  /\ pc = "start"
  /\ \E input \in CheckInputs : content = input[1] /\ images = input[2]
  /\ CheckIdle
  /\ ScoreIdle
  /\ CacheIdle
  /\ RouteIdle
  /\ AnalyzeIdle
  /\ CollabIdle
  /\ AIIdle
  /\ PrefIdle

\* A caller builds a result list and invokes calculateScore on it.
InitScore ==
  /\ pc = "score"
  /\ content = << >>
  /\ images = << >>
  /\ CheckIdle
  /\ ScoreIdle
  /\ CacheIdle
  /\ RouteIdle
  /\ AnalyzeIdle
  /\ CollabIdle
  /\ AIIdle
  /\ PrefIdle

\* Callers use a fresh CacheManager while time passes.
InitCache ==
  /\ pc = "cache"
  /\ content = << >>
  /\ images = << >>
  /\ CheckIdle
  /\ ScoreIdle
  /\ CacheIdle
  /\ RouteIdle
  /\ AnalyzeIdle
  /\ CollabIdle
  /\ AIIdle
  /\ PrefIdle

\* Clients send requests to the accessibility check route.
InitRoute ==
  /\ pc = "route"
  /\ content = << >>
  /\ images = << >>
  /\ CheckIdle
  /\ ScoreIdle
  /\ CacheIdle
  /\ RouteIdle
  /\ AnalyzeIdle
  /\ CollabIdle
  /\ AIIdle
  /\ PrefIdle

\* A caller invokes analyzeImage on an image.
InitAnalyze ==
  /\ pc = "analyze"
  /\ content = << >>
  /\ images = << >>
  /\ CheckIdle
  /\ ScoreIdle
  /\ CacheIdle
  /\ RouteIdle
  /\ AnalyzeIdle
  /\ CollabIdle
  /\ AIIdle
  /\ PrefIdle

\* Users work with a fresh CollaborationManager while time passes.
InitCollab ==
  /\ pc = "collab"
  /\ content = << >>
  /\ images = << >>
  /\ CheckIdle
  /\ ScoreIdle
  /\ CacheIdle
  /\ RouteIdle
  /\ AnalyzeIdle
  /\ CollabIdle
  /\ AIIdle
  /\ PrefIdle

\* Clients send requests to the cached AI routes.
InitAI ==
  /\ pc = "ai"
  /\ content = << >>
  /\ images = << >>
  /\ CheckIdle
  /\ ScoreIdle
  /\ CacheIdle
  /\ RouteIdle
  /\ AnalyzeIdle
  /\ CollabIdle
  /\ AIIdle
  /\ PrefIdle

\* Callers use a fresh UserPreferencesManager while time passes.
InitPrefs ==
  /\ pc = "prefs"
  /\ content = << >>
  /\ images = << >>
  /\ CheckIdle
  /\ ScoreIdle
  /\ CacheIdle
  /\ RouteIdle
  /\ AnalyzeIdle
  /\ CollabIdle
  /\ AIIdle
  /\ PrefIdle

Init ==
  \/ InitCheck \/ InitScore \/ InitCache \/ InitRoute
  \/ InitAnalyze \/ InitCollab

(***************************************************************************)
(* checkContent                                                            *)
(***************************************************************************)
\* lines 202-221: validate, convert the failed results to issues.
Validate ==
  /\ pc = "start"
  /\ wcagResults' = validateContent(content, images)
  /\ issues' = ConvertWCAGResults(wcagResults')
  /\ pc' = "images"
  /\ UNCHANGED << content, images, idx, started, inflight, hung, settled,
                  imageAnalyses, report >>
  /\ UNCHANGED << scoreVars, cacheVars, routeVars, analyzeVars, collabVars, aiVars, prefVars >>

\* Mutation of LoopAt: the analyses are started without awaiting each other.
LoopAtAny(i) == TRUE

\* `for (const [index, image] of images.entries())` with an `await` in its
\* body: image i is reached when the loop is at i and nothing is awaited.
LoopAt(i) == idx = i /\ inflight = {}

\* Mutation of AfterImage: a failed analysis leaves the loop.
AfterImageAbort(i, ok) == IF ok THEN i + 1 ELSE Len(images) + 1

\* The index after the body of image i has run or thrown into the catch.
AfterImage(i, ok) == i + 1

\* line 226 false: the image has no data or no mimeType.
SkipImage ==
  /\ pc = "images"
  /\ idx <= Len(images)
  /\ LoopAt(idx)
  /\ ~images[idx].hasData
  /\ idx' = idx + 1
  /\ UNCHANGED << pc, content, images, started, inflight, hung, settled,
                  wcagResults, issues, imageAnalyses, report >>
  /\ UNCHANGED << scoreVars, cacheVars, routeVars, analyzeVars, collabVars, aiVars, prefVars >>

\* lines 228-232: call analyzeImage and await it.
DispatchImage(i) ==
  /\ pc = "images"
  /\ i \in 1..Len(images)
  /\ i \notin started
  /\ LoopAt(i)
  /\ images[i].hasData
  /\ started' = started \cup {i}
  /\ inflight' = inflight \cup {ImageTask(i)}
  /\ UNCHANGED << pc, content, images, idx, hung, settled,
                  wcagResults, issues, imageAnalyses, report >>
  /\ UNCHANGED << scoreVars, cacheVars, routeVars, analyzeVars, collabVars, aiVars, prefVars >>

\* lines 228-278: the awaited analysis arrives; push its issues, or fall
\* into the catch of line 276 when analyzeImage throws.
SettleImage(i, response) ==
  /\ pc = "images"
  /\ ImageTask(i) \in inflight
  /\ ImageTask(i) \notin hung
  /\ LET done == analyzeImage(response)
     IN IF done.thrown
        THEN UNCHANGED << imageAnalyses, issues >>
        ELSE /\ imageAnalyses' = Append(imageAnalyses,
                                        [src |-> images[i].src, analysis |-> done.value])
             /\ issues' = issues \o ImageIssues(content, images[i], i, done.value)
  /\ inflight' = inflight \ {ImageTask(i)}
  /\ settled' = Append(settled, [task |-> ImageTask(i), ok |-> response.ok,
                                  analysis |-> response.analysis, issues |-> << >>])
  /\ idx' = AfterImage(idx, response.ok)
  /\ UNCHANGED << pc, content, images, started, hung, wcagResults, report >>
  /\ UNCHANGED << scoreVars, cacheVars, routeVars, analyzeVars, collabVars, aiVars, prefVars >>

\* lines 283-293: the checker's own heading and contrast checks, then the
\* call of analyzeContentAccessibility, which is awaited.
LocalChecks ==
  /\ pc = "images"
  /\ idx > Len(images)
  /\ inflight = {}
  /\ issues' = issues \o checkHeadingStructure(content) \o checkColorContrast(content)
  /\ inflight' = {ContentTask}
  /\ pc' = "content"
  /\ UNCHANGED << content, images, idx, started, hung, settled,
                  wcagResults, imageAnalyses, report >>
  /\ UNCHANGED << scoreVars, cacheVars, routeVars, analyzeVars, collabVars, aiVars, prefVars >>

\* Mutation of ScoredResults: the merged issue list is scored.
ScoredResultsMerged(results, allIssues) ==
  [i \in 1..Len(allIssues) |-> [passed |-> FALSE, severity |-> allIssues[i].severity]]

\* line 302: the list the score is computed from.
ScoredResults(results, allIssues) == results

\* lines 294-300: the issues once the content analysis has arrived.
FinalIssues(response) ==
  issues \o (IF response.success
             THEN convertGeminiAnalysisToIssues(response.issues)
             ELSE << >>)

\* lines 302-305: score, suggestions and the returned object.
MakeReport(final) ==
  [score |-> calculateScore(ScoredResults(wcagResults, final)),
   issues |-> final,
   suggestions |-> generateEnhancedSuggestions(final, imageAnalyses),
   imageAnalyses |-> imageAnalyses]

\* lines 294-305: the content analysis arrives; score, suggestions, return.
SettleContent(response) ==
  /\ pc = "content"
  /\ ContentTask \in inflight
  /\ ContentTask \notin hung
  /\ issues' = FinalIssues(response)
  /\ report' = MakeReport(FinalIssues(response))
  /\ inflight' = {}
  /\ settled' = Append(settled, [task |-> ContentTask, ok |-> response.success,
                                  analysis |-> getFallbackAnalysis,
                                  issues |-> response.issues])
  /\ pc' = "done"
  /\ UNCHANGED << content, images, idx, started, hung, wcagResults, imageAnalyses >>
  /\ UNCHANGED << scoreVars, cacheVars, routeVars, analyzeVars, collabVars, aiVars, prefVars >>

\* The provider never answers a call: its promise neither resolves nor rejects.
ProviderHangs(t) ==
  /\ t \in inflight
  /\ t \notin hung
  /\ hung' = hung \cup {t}
  /\ UNCHANGED << pc, content, images, idx, started, inflight, settled,
                  wcagResults, issues, imageAnalyses, report >>
  /\ UNCHANGED << scoreVars, cacheVars, routeVars, analyzeVars, collabVars, aiVars, prefVars >>

(***************************************************************************)
(* Direct calls of WCAGValidator.calculateScore                            *)
(***************************************************************************)
AnyResults ==
  { [ruleId |-> "1.1.1", passed |-> p, severity |-> s,
     element |-> NoText, message |-> NoText, suggestion |-> NoText,
     autoFixable |-> FALSE] :
      p \in {FALSE}, s \in {"high", "medium", "low"} }
    \cup { [ruleId |-> "1.1.1", passed |-> TRUE, severity |-> "high",
            element |-> NoText, message |-> NoText, suggestion |-> NoText,
            autoFixable |-> FALSE] }

AddResult(r) ==
  /\ pc = "score"
  /\ Len(scoreArg) < MaxResults
  /\ scoreArg' = Append(scoreArg, r)
  /\ scoreRet' = NoScore
  /\ UNCHANGED pc
  /\ UNCHANGED << checkVars, cacheVars, routeVars, analyzeVars, collabVars, aiVars, prefVars >>

CallCalculateScore ==
  /\ pc = "score"
  /\ scoreRet' = calculateScore(scoreArg)
  /\ UNCHANGED << pc, scoreArg >>
  /\ UNCHANGED << checkVars, cacheVars, routeVars, analyzeVars, collabVars, aiVars, prefVars >>

(***************************************************************************)
(* CacheManager (lib/cache-manager): get(key), set(key, value, ttl).       *)
(***************************************************************************)
\* Mutation of Expired: the entry is still served at its expiry instant.
ExpiredLate(entry, t) == t > entry.expiry

\* An entry is no longer served once the clock has reached its expiry.
Expired(entry, t) == t >= entry.expiry

CacheLookup(c, k, t) ==
  IF c[k].present /\ ~Expired(c[k], t)
  THEN [hit |-> TRUE, value |-> c[k].value]
  ELSE [hit |-> FALSE, value |-> ""]

\* set(key, value, ttl): store with expiry = now + ttl.
CacheStore(c, k, v, ttl, t) ==
  [c EXCEPT ![k] = [present |-> TRUE, value |-> v, expiry |-> t + ttl]]

\* get(key): an expired entry is dropped by the lookup that finds it.
CacheAfterGet(c, k, t) ==
  IF c[k].present /\ Expired(c[k], t) THEN [c EXCEPT ![k] = NoEntry] ELSE c

CacheSet(k, v, ttl) ==
  /\ pc = "cache"
  /\ cache' = CacheStore(cache, k, v, ttl, now)
  /\ setAt' = [setAt EXCEPT ![k] = [done |-> TRUE, value |-> v, at |-> now, ttl |-> ttl]]
  /\ lastGet' = NoGet
  /\ UNCHANGED << pc, now >>
  /\ UNCHANGED << checkVars, scoreVars, routeVars, analyzeVars, collabVars, aiVars, prefVars >>

CacheGet(k) ==
  /\ pc = "cache"
  /\ LET r == CacheLookup(cache, k, now)
     IN lastGet' = [key |-> k, at |-> now, hit |-> r.hit, value |-> r.value,
                    set |-> setAt[k]]
  /\ cache' = CacheAfterGet(cache, k, now)
  /\ UNCHANGED << pc, now, setAt >>
  /\ UNCHANGED << checkVars, scoreVars, routeVars, analyzeVars, collabVars, aiVars, prefVars >>

Tick ==
  /\ pc = "cache"
  /\ now < MaxTime
  /\ now' = now + 1
  /\ lastGet' = NoGet
  /\ UNCHANGED << pc, cache, setAt >>
  /\ UNCHANGED << checkVars, scoreVars, routeVars, analyzeVars, collabVars, aiVars, prefVars >>

(***************************************************************************)
(* POST /api/accessibility/check                                           *)
(***************************************************************************)
\* What `await accessibilityChecker.checkContent(content, images)` resolves
\* to for images without data: no image is analysed, the content analysis
\* answers with `response`.
checkContentNoData(text, imgs, response) ==
  LET results == validateContent(text, imgs)
      all == ConvertWCAGResults(results)
               \o checkHeadingStructure(text)
               \o checkColorContrast(text)
               \o (IF response.success
                   THEN convertGeminiAnalysisToIssues(response.issues)
                   ELSE << >>)
  IN [score |-> calculateScore(ScoredResults(results, all)),
      issues |-> all,
      suggestions |-> generateEnhancedSuggestions(all, << >>),
      imageAnalyses |-> << >>]

\* What answers the analyzeContentAccessibility call of a request.
RouteResponses ==
  { [success |-> FALSE, issues |-> << >>],
    [success |-> TRUE, issues |-> << GeminiIssue("aria", "high", "Add an aria-label to the navigation") >>] }

\* Mutation of StoreReport: a live entry is not overwritten.
StoreReportIfAbsent(c, key, result, t) ==
  IF CacheLookup(c, key, t).hit THEN c ELSE CacheStore(c, key, result, CheckTtl, t)

\* line 38: cache.set(cacheKey, {success: true, ...result}, 15 * 60 * 1000)
StoreReport(c, key, result, t) == CacheStore(c, key, result, CheckTtl, t)

\* Mutation of ContentMissing: the test of line 15 is left out.
ContentMissingNever(body) == FALSE

\* Mutation of ContentMissing: only an absent content is refused, the empty
\* string is let through.
ContentMissingStrict(body) == body.kind = "absent"

\* line 15, `!content`: undefined, null and "" are all falsy.
ContentMissing(body) == body.kind \in {"absent", "empty"}

\* Request r has not been sent yet: every request is served once.
Accepts(r) == pc = "route" /\ req[r].stage = "idle"

Respond(status, success, error, cached, result) ==
  [status |-> status, success |-> success, error |-> error, cached |-> cached,
   result |-> result]

\* line 12 throws: the catch answers 500.
RouteError(r, body) ==
  /\ Accepts(r)
  /\ body.kind = "malformed"
  /\ req' = [req EXCEPT ![r] =
               [stage |-> "done", body |-> body, key |-> NoKey, calls |-> << >>,
                response |-> Respond(ServerError, FALSE,
                                     "Failed to check accessibility", FALSE, NoReport)]]
  /\ UNCHANGED routeCache
  /\ UNCHANGED << pc, checkVars, scoreVars, cacheVars, analyzeVars, collabVars, aiVars, prefVars >>

\* lines 15-17: no content, answer 400 before anything else is done.
RouteReject(r, body) ==
  /\ Accepts(r)
  /\ body.kind # "malformed"
  /\ ContentMissing(body)
  /\ req' = [req EXCEPT ![r] =
               [stage |-> "done", body |-> body, key |-> NoKey, calls |-> << >>,
                response |-> Respond(BadRequest, FALSE, "Content is required",
                                     FALSE, NoReport)]]
  /\ UNCHANGED routeCache
  /\ UNCHANGED << pc, checkVars, scoreVars, cacheVars, analyzeVars, collabVars, aiVars, prefVars >>

\* lines 19-32: the key is in the cache; answer with the cached result.
RouteHit(r, body) ==
  /\ Accepts(r)
  /\ body.kind # "malformed"
  /\ ~ContentMissing(body)
  /\ LET key == generateKey(body)
         found == CacheLookup(routeCache, key, now)
     IN /\ found.hit
        /\ req' = [req EXCEPT ![r] =
                     [stage |-> "done", body |-> body, key |-> key,
                      calls |-> << "get" >>,
                      response |-> Respond(Ok, TRUE, "", TRUE, found.value)]]
        /\ routeCache' = CacheAfterGet(routeCache, key, now)
  /\ UNCHANGED << pc, checkVars, scoreVars, cacheVars, analyzeVars, collabVars, aiVars, prefVars >>

\* lines 19-35: the key is not in the cache; call checkContent and await it.
RouteMiss(r, body) ==
  /\ Accepts(r)
  /\ body.kind # "malformed"
  /\ ~ContentMissing(body)
  /\ LET key == generateKey(body)
     IN /\ ~CacheLookup(routeCache, key, now).hit
        /\ req' = [req EXCEPT ![r] =
                     [stage |-> "check", body |-> body, key |-> key,
                      calls |-> << "get", "checkContent" >>,
                      response |-> NoResponse]]
        /\ routeCache' = CacheAfterGet(routeCache, key, now)
  /\ UNCHANGED << pc, checkVars, scoreVars, cacheVars, analyzeVars, collabVars, aiVars, prefVars >>

\* lines 35-43: checkContent has resolved; store the report, answer with it.
RouteCheckReturns(r, response) ==
  /\ pc = "route"
  /\ req[r].stage = "check"
  /\ LET result == checkContentNoData(req[r].body.content, req[r].body.images,
                                      response)
     IN /\ routeCache' = StoreReport(routeCache, req[r].key, result, now)
        /\ req' = [req EXCEPT ![r].stage = "done",
                               ![r].calls = Append(@, "set"),
                               ![r].response = Respond(Ok, TRUE, "", FALSE, result)]
  /\ UNCHANGED << pc, checkVars, scoreVars, cacheVars, analyzeVars, collabVars, aiVars, prefVars >>

\* Time passes between two steps of the route.
RouteElapse ==
  /\ pc = "route"
  /\ now + CheckTtl <= MaxClock
  /\ now' = now + CheckTtl
  /\ UNCHANGED << pc, cache, setAt, lastGet >>
  /\ UNCHANGED << checkVars, scoreVars, routeVars, analyzeVars, collabVars, aiVars, prefVars >>

(***************************************************************************)
(* ImageAnalyzer.analyzeImage, called directly                             *)
(***************************************************************************)
CallAnalyzeImage(response) ==
  /\ pc = "analyze"
  /\ analyzed' = [called |-> TRUE, response |-> response,
                  outcome |-> analyzeImage(response)]
  /\ UNCHANGED << pc, checkVars, scoreVars, cacheVars, routeVars, collabVars, aiVars, prefVars >>

NextAnalyze == \E r \in AnalyzeResponses : CallAnalyzeImage(r)

(***************************************************************************)
(* CollaborationManager                                                    *)
(***************************************************************************)
Joined(userId) ==
  \E i \in 1..Len(collaborators) : collaborators[i].userId = userId

\* Map.set: a new key goes to the end, a known key keeps its place.
MapSet(entries, entry) ==
  IF \E i \in 1..Len(entries) : entries[i].userId = entry.userId
  THEN [i \in 1..Len(entries) |->
          IF entries[i].userId = entry.userId THEN entry ELSE entries[i]]
  ELSE Append(entries, entry)

\* {...current, ...updates, timestamp: Date.now()}
Merged(current, updates, at) ==
  Collaborator(current.userId, at,
               IF "activeTab" \in DOMAIN updates
                 THEN updates.activeTab ELSE current.activeTab,
               IF "isEditing" \in DOMAIN updates
                 THEN updates.isEditing ELSE current.isEditing,
               IF "currentSuggestion" \in DOMAIN updates
                 THEN updates.currentSuggestion ELSE current.currentSuggestion)

UserIds(entries) == [i \in 1..Len(entries) |-> entries[i].userId]

getActiveCollaborators ==
  SelectSeq(collaborators, LAMBDA collab : now - collab.timestamp < ActiveThreshold)

\* The filter of detectSuggestionConflict, detectAccessibilityConflict and
\* detectSettingsConflict.
ConflictingUsers(type, activeUsers) ==
  SelectSeq(activeUsers,
            LAMBDA user :
              CASE type = "suggestion" ->
                     user.currentSuggestion # "" /\ user.activeTab = "generator"
                [] type = "accessibility" -> user.activeTab = "accessibility"
                [] OTHER -> user.activeTab = "settings")

\* What detectConflict returns: the conflict it stores, or null.
detectConflict(type, userId) ==
  LET activeUsers == SelectSeq(getActiveCollaborators,
                               LAMBDA c : c.userId # userId /\ c.isEditing)
      conflictingUsers == ConflictingUsers(type, activeUsers)
  IN IF Len(activeUsers) = 0 \/ Len(conflictingUsers) = 0
     THEN Null
     ELSE Conflict(ConflictId(type, now), type,
                   << userId >> \o UserIds(conflictingUsers))

addCollaborator(userId) ==
  /\ pc = "collab"
  /\ collaborators' = MapSet(collaborators,
                             Collaborator(userId, now, "generator", FALSE, ""))
  /\ detected' = NoDetected
  /\ resolved' = NoResolved
  /\ UNCHANGED << pc, conflicts >>
  /\ UNCHANGED << checkVars, scoreVars, cacheVars, routeVars, analyzeVars, aiVars, prefVars >>

removeCollaborator(userId) ==
  /\ pc = "collab"
  /\ collaborators' = SelectSeq(collaborators, LAMBDA c : c.userId # userId)
  /\ detected' = NoDetected
  /\ resolved' = NoResolved
  /\ UNCHANGED << pc, conflicts >>
  /\ UNCHANGED << checkVars, scoreVars, cacheVars, routeVars, analyzeVars, aiVars, prefVars >>

updateCollaboratorState(userId, updates) ==
  /\ pc = "collab"
  /\ collaborators' =
       IF Joined(userId)
       THEN LET current == CHOOSE c \in { collaborators[i] : i \in 1..Len(collaborators) } :
                             c.userId = userId
            IN MapSet(collaborators, Merged(current, updates, now))
       ELSE collaborators
  /\ detected' = NoDetected
  /\ resolved' = NoResolved
  /\ UNCHANGED << pc, conflicts >>
  /\ UNCHANGED << checkVars, scoreVars, cacheVars, routeVars, analyzeVars, aiVars, prefVars >>

\* detectConflict(type, data, userId): a conflict that is found replaces
\* the stored one of the same id.
CallDetectConflict(type, userId) ==
  /\ pc = "collab"
  /\ LET conflict == detectConflict(type, userId)
     IN /\ conflicts' =
             IF conflict.null THEN conflicts
             ELSE { c \in conflicts : c.conflictId # conflict.conflictId }
                    \cup { conflict }
        /\ detected' = [called |-> TRUE, type |-> type, userId |-> userId,
                        result |-> conflict]
  /\ Cardinality(conflicts') <= MaxConflicts
  /\ resolved' = NoResolved
  /\ UNCHANGED << pc, collaborators >>
  /\ UNCHANGED << checkVars, scoreVars, cacheVars, routeVars, analyzeVars, aiVars, prefVars >>

\* resolveConflict(conflictId, resolution, resolvedBy); returned says that
\* conflictId is the id of the conflict detectConflict has just returned.
CallResolveConflict(conflictId) ==
  /\ pc = "collab"
  /\ LET known == \E c \in conflicts : c.conflictId = conflictId
     IN /\ resolved' = [called |-> TRUE, conflictId |-> conflictId,
                        returned |-> detected.called /\ ~detected.result.null
                                       /\ detected.result.conflictId = conflictId,
                        result |-> known]
        /\ conflicts' = { c \in conflicts : c.conflictId # conflictId }
  /\ detected' = NoDetected
  /\ UNCHANGED << pc, collaborators >>
  /\ UNCHANGED << checkVars, scoreVars, cacheVars, routeVars, analyzeVars, aiVars, prefVars >>

\* Time passes between two calls.
CollabElapse ==
  /\ pc = "collab"
  /\ now + ActiveThreshold <= MaxCollabClock
  /\ now' = now + ActiveThreshold
  /\ detected' = NoDetected
  /\ resolved' = NoResolved
  /\ UNCHANGED << pc, cache, setAt, lastGet, collaborators, conflicts >>
  /\ UNCHANGED << checkVars, scoreVars, routeVars, analyzeVars, aiVars, prefVars >>

NextCollab ==
  \/ \E u \in Users : addCollaborator(u)
  \/ \E u \in Users : removeCollaborator(u)
  \/ \E u \in Users : \E updates \in Updates : updateCollaboratorState(u, updates)
  \/ \E t \in ConflictTypes : \E u \in Users : CallDetectConflict(t, u)
  \/ \E id \in ConflictIds : CallResolveConflict(id)
  \/ CollabElapse

(***************************************************************************)
(* The cached AI routes                                                    *)
(***************************************************************************)
OtherVarsOfAI ==
  << pc, checkVars, scoreVars, cacheVars, routeVars, analyzeVars, collabVars, prefVars >>

\* GeminiClient.generateAltText / generateContentBlock: the provider call is
\* inside try, so the method resolves to {success: true, ...} or to
\* {success: false, error, fallback}.
GeminiResult(ok) ==
  [success |-> ok, text |-> IF ok THEN "generated" ELSE "",
   fallback |-> IF ok THEN "" ELSE "fallback"]

AIAnswer(route, failed, calls, status, cached) ==
  [called |-> TRUE, route |-> route, failed |-> failed, calls |-> calls,
   status |-> status, cached |-> cached]

\* The image routes refuse a body without imageData or mimeType.
AIBadRequest(route) ==
  /\ pc = "ai"
  /\ route \in {"image-analysis", "alt-text"}
  /\ aiLast' = AIAnswer(route, FALSE, << >>, BadRequest, FALSE)
  /\ UNCHANGED aiCache
  /\ UNCHANGED OtherVarsOfAI

\* cache.get finds the key: the cached value is the answer.
AIHit(route) ==
  /\ pc = "ai"
  /\ CacheLookup(aiCache, route, now).hit
  /\ aiLast' = AIAnswer(route, FALSE, << "get" >>, Ok, TRUE)
  /\ UNCHANGED aiCache
  /\ UNCHANGED OtherVarsOfAI

\* generate-alt-text lines 30-38, generate-content lines 31-45: the result
\* is stored when result.success holds, and returned in either case.
AIGenerate(route, ok) ==
  /\ pc = "ai"
  /\ route \in {"alt-text", "content"}
  /\ ~CacheLookup(aiCache, route, now).hit
  /\ LET result == GeminiResult(ok)
     IN IF result.success
        THEN /\ aiCache' = CacheStore(aiCache, route, result, AITtl(route), now)
             /\ aiLast' = AIAnswer(route, FALSE, << "get", "provider", "set" >>, Ok, FALSE)
        ELSE /\ UNCHANGED aiCache
             /\ aiLast' = AIAnswer(route, TRUE, << "get", "provider" >>, Ok, FALSE)
  /\ UNCHANGED OtherVarsOfAI

\* image analysis route, lines 93-124, analysisType "full": what analyzeImage
\* returns is stored and returned; an exception goes to the catch (500).
AIAnalyzeImage(response) ==
  /\ pc = "ai"
  /\ ~CacheLookup(aiCache, "image-analysis", now).hit
  /\ LET done == analyzeImage(response)
     IN IF done.thrown
        THEN /\ UNCHANGED aiCache
             /\ aiLast' = AIAnswer("image-analysis", TRUE, << "get", "provider" >>,
                                   ServerError, FALSE)
        ELSE /\ aiCache' = CacheStore(aiCache, "image-analysis", done.value,
                                      AITtl("image-analysis"), now)
             /\ aiLast' = AIAnswer("image-analysis",
                                   response.kind \in {"reject", "blocked", "badjson"},
                                   << "get", "provider", "set" >>, Ok, FALSE)
  /\ UNCHANGED OtherVarsOfAI

NextAI ==
  \/ \E route \in AIRoutes : AIBadRequest(route) \/ AIHit(route)
  \/ \E route \in AIRoutes : \E ok \in BOOLEAN : AIGenerate(route, ok)
  \/ \E r \in AnalyzeResponses : AIAnalyzeImage(r)

(***************************************************************************)
(* UserPreferencesManager                                                  *)
(***************************************************************************)
OtherVarsOfPrefs ==
  << checkVars, scoreVars, routeVars, analyzeVars, collabVars, aiVars,
     cache, setAt, lastGet >>

\* loadUserPreferences: {userId, ...this.defaultPreferences} copies the
\* fields of the defaults, so the new customPrompts field refers to the
\* array of the defaults.
Loaded(prefs, userId) ==
  IF prefs[userId] = "none" THEN [prefs EXCEPT ![userId] = "default"] ELSE prefs

\* The customPrompts a loadUserPreferences(userId) call would return now.
customPrompts(userId) == arrays[Loaded(preferences, userId)[userId]]

loadUserPreferences(userId) ==
  /\ pc = "prefs"
  /\ preferences' = Loaded(preferences, userId)
  /\ added' = NoAdded
  /\ UNCHANGED << pc, now, arrays >>
  /\ UNCHANGED OtherVarsOfPrefs

\* preferences.customPrompts.push({id: `prompt-${Date.now()}`, ...prompt}):
\* the array is changed in place; saveUserPreferences stores a copy of the
\* object whose customPrompts field refers to the same array.
addCustomPrompt(userId, name) ==
  /\ pc = "prefs"
  /\ LET prefs == Loaded(preferences, userId)
         ref == prefs[userId]
     IN /\ Len(arrays[ref]) < MaxPrompts
        /\ preferences' = prefs
        /\ arrays' = [arrays EXCEPT ![ref] = Append(@, [id |-> now, name |-> name])]
  /\ added' = [called |-> TRUE, userId |-> userId, name |-> name]
  /\ UNCHANGED << pc, now >>
  /\ UNCHANGED OtherVarsOfPrefs

\* preferences.customPrompts = preferences.customPrompts.filter(...): the
\* field is set to a new array.
removeCustomPrompt(userId, promptId) ==
  /\ pc = "prefs"
  /\ LET prefs == Loaded(preferences, userId)
         ref == prefs[userId]
     IN /\ preferences' = [prefs EXCEPT ![userId] = userId]
        /\ arrays' = [arrays EXCEPT ![userId] =
                        SelectSeq(arrays[ref], LAMBDA p : p.id # promptId)]
  /\ added' = NoAdded
  /\ UNCHANGED << pc, now >>
  /\ UNCHANGED OtherVarsOfPrefs

\* Time passes between two calls.
PrefElapse ==
  /\ pc = "prefs"
  /\ now < MaxPrefClock
  /\ now' = now + 1
  /\ added' = NoAdded
  /\ UNCHANGED << pc, preferences, arrays >>
  /\ UNCHANGED OtherVarsOfPrefs

NextPrefs ==
  \/ \E u \in PrefUsers : loadUserPreferences(u)
  \/ \E u \in PrefUsers : \E name \in PromptNames : addCustomPrompt(u, name)
  \/ \E u \in PrefUsers : \E id \in 0..MaxPrefClock : removeCustomPrompt(u, id)
  \/ PrefElapse

NextRoute ==
  \/ \E r \in Requests : \E b \in RouteBodies :
        RouteError(r, b) \/ RouteReject(r, b) \/ RouteHit(r, b) \/ RouteMiss(r, b)
  \/ \E r \in Requests : \E c \in RouteResponses : RouteCheckReturns(r, c)
  \/ RouteElapse

NextCheck ==
  \/ Validate
  \/ SkipImage
  \/ \E i \in 1..MaxImages : DispatchImage(i)
  \/ \E i \in 1..MaxImages : \E r \in ImageResponses : SettleImage(i, r)
  \/ LocalChecks
  \/ \E r \in ContentResponses : SettleContent(r)
  \/ \E t \in inflight : ProviderHangs(t)

NextScore ==
  \/ \E r \in AnyResults : AddResult(r)
  \/ CallCalculateScore

NextCache ==
  \/ \E k \in Keys : \E v \in Values : \E ttl \in 1..MaxTtl : CacheSet(k, v, ttl)
  \/ \E k \in Keys : CacheGet(k)
  \/ Tick

Next ==
  \/ NextCheck \/ NextScore \/ NextCache \/ NextRoute
  \/ NextAnalyze \/ NextCollab

Spec == Init /\ [][Next]_vars

\* checkContent alone, from every input.
CheckSpec == InitCheck /\ [][NextCheck]_vars

\* The cached AI routes alone.
AISpec == InitAI /\ [][NextAI]_vars

\* UserPreferencesManager alone.
PrefSpec == InitPrefs /\ [][NextPrefs]_vars

\* checkContent alone, under the scheduling the runtime guarantees: a step
\* that can be taken is taken (a ready continuation runs, an answer that
\* has arrived is delivered).  The provider stays free never to answer.
InitFair ==
  /\ pc = "start"
  /\ content \in FewContents
  /\ images \in ImageLists
  /\ CheckIdle
  /\ ScoreIdle
  /\ CacheIdle
  /\ RouteIdle
  /\ AnalyzeIdle
  /\ CollabIdle
  /\ AIIdle
  /\ PrefIdle

FairSpec == InitFair /\ [][NextCheck]_vars /\ WF_vars(NextCheck)

(***************************************************************************)
(* Properties.                                                             *)
(***************************************************************************)
Returned == pc = "done"

\* Sum of the severity weights of a list of issues or results.
SumWeights(xs) == WeightsUpTo(xs, Len(xs))

Prefix(issue) == issue.id[1]
IsRuleIssue(issue) == Prefix(issue) = "wcag"
IsAIImageIssue(issue) == Prefix(issue) \in {"ai-alt-text", "text-in-image", "complex-image"}
IsOwnIssue(issue) == Prefix(issue) \in {"heading-skip", "heading-empty", "contrast"}
IsAIContentIssue(issue) == Prefix(issue) = "gemini"

\* Number of failed results of one severity, whatever their positions.
Failed(results, severity) ==
  Cardinality({i \in 1..Len(results) :
                 ~results[i].passed /\ results[i].severity = severity})

\* C1: every score returned, by checkContent in its report and by a direct
\* call of calculateScore, lies between 0 and 100.
C1_ScoreInRange ==
  /\ Returned => report.score \in 0..100
  /\ scoreRet # NoScore => scoreRet \in 0..100

\* C1 witness: a report whose rule failures exceed 100 points, clamped to 0.
C1_Witness ==
  /\ Returned
  /\ SumWeights(wcagResults) > 100
  /\ report.score = 0

\* C2: calculateScore(results) is max(0, 100 - 15*#high - 10*#medium - 5*#low)
\* counted over the failed results only, so passed results add nothing and
\* the order of the results is irrelevant.
C2_ScoreFormula ==
  scoreRet # NoScore =>
    scoreRet = Max(0, 100 - (15 * Failed(scoreArg, "high")
                             + 10 * Failed(scoreArg, "medium")
                             + 5 * Failed(scoreArg, "low")))

\* C2 witness: two high and one medium failure, together with a passed
\* result, score 60.
C2_Witness ==
  /\ scoreRet = 60
  /\ Failed(scoreArg, "high") = 2
  /\ Failed(scoreArg, "medium") = 1
  /\ Failed(scoreArg, "low") = 0
  /\ \E i \in 1..Len(scoreArg) : scoreArg[i].passed

\* C3 as claimed: the score of a report is max(0, 100 - the weights of all
\* the issues the report returns).
C3_ScoreFromMergedIssues ==
  Returned => report.score = Max(0, 100 - SumWeights(report.issues))

\* C3 amended: the score of a report is max(0, 100 - the weights of the
\* issues that come from the rule validator's failed results); AI-derived
\* issues and the checker's own heading and contrast issues deduct nothing.
C3_ScoreFromRuleIssues ==
  Returned =>
    report.score = Max(0, 100 - SumWeights(SelectSeq(report.issues, IsRuleIssue)))

\* C3 witness: a report with rule issues and with other issues, whose score
\* is above 0.
C3_Witness ==
  /\ Returned
  /\ report.score > 0
  /\ \E i \in 1..Len(report.issues) : IsRuleIssue(report.issues[i])
  /\ \E i \in 1..Len(report.issues) : IsAIImageIssue(report.issues[i])
  /\ \E i \in 1..Len(report.issues) : IsAIContentIssue(report.issues[i])

\* C4: a get returns the value of the latest set of its key when it happens
\* strictly before that set's time + ttl, and misses otherwise (no set yet,
\* or the clock has reached time + ttl).
C4_CacheTtl ==
  lastGet.key # "" =>
    IF lastGet.set.done /\ lastGet.at < lastGet.set.at + lastGet.set.ttl
    THEN lastGet.hit /\ lastGet.value = lastGet.set.value
    ELSE ~lastGet.hit

\* C4 witness: a get at exactly time + ttl of the latest set, which misses.
C4_Witness ==
  /\ lastGet.key # ""
  /\ lastGet.set.done
  /\ lastGet.at = lastGet.set.at + lastGet.set.ttl
  /\ ~lastGet.hit

DataImages == {i \in 1..Len(images) : images[i].hasData}
HasSettled(t) == \E k \in 1..Len(settled) : settled[k].task = t
SettledEntry(t) == settled[CHOOSE k \in 1..Len(settled) : settled[k].task = t]

\* The AI issues of image number i (ids carry the 0-based index i - 1).
IsAIIssueOf(issue, i) == IsAIImageIssue(issue) /\ issue.id[3] = i - 1
AIIssuesOf(list, i) == SelectSeq(list, LAMBDA x : IsAIIssueOf(x, i))

\* C5: whichever AI calls fail, the report carries the rule issues of the
\* content and images unchanged, every image with data has been analysed,
\* and every image whose analysis succeeded has exactly the AI issues of
\* its own analysis.
C5_FailureIsolation ==
  Returned =>
    /\ SelectSeq(report.issues, IsRuleIssue)
         = ConvertWCAGResults(validateContent(content, images))
    /\ \A i \in DataImages :
         /\ HasSettled(ImageTask(i))
         /\ SettledEntry(ImageTask(i)).ok =>
              AIIssuesOf(report.issues, i)
                = ImageIssues(content, images[i], i, SettledEntry(ImageTask(i)).analysis)

\* C5 witness: a report after one image analysis failed and a later sibling
\* succeeded and produced AI issues.
C5_Witness ==
  /\ Returned
  /\ \E i, j \in DataImages :
       /\ i < j
       /\ ~SettledEntry(ImageTask(i)).ok
       /\ SettledEntry(ImageTask(j)).ok
       /\ AIIssuesOf(report.issues, j) # << >>

\* C6: a checkContent call that has been made eventually returns a report,
\* also when the provider never settles one of its calls.
C6_EventuallyReturns == (pc = "start") ~> Returned

AllTasksStarted == DataImages \subseteq started /\ pc \in {"content", "done"}

Segment(issue) ==
  IF IsRuleIssue(issue) THEN 1
  ELSE IF IsAIImageIssue(issue) THEN 2
  ELSE IF IsOwnIssue(issue) THEN 3
  ELSE 4
\* The validator check a rule issue comes from: images 1, headings 2,
\* colour contrast 3, semantic structure 4, ARIA 5.
CheckRank(issue) ==
  CASE issue.type = "alt-text" -> 1
    [] issue.type = "heading" -> 2
    [] issue.type = "semantic" /\ issue.element[1] = "Heading" -> 2
    [] issue.type = "contrast" -> 3
    [] issue.type = "semantic" /\ issue.element[1] # "Heading" -> 4
    [] issue.type = "aria" -> 5
OwnRank(issue) ==
  CASE Prefix(issue) = "heading-skip" -> 1
    [] Prefix(issue) = "heading-empty" -> 2
    [] Prefix(issue) = "contrast" -> 3
SubRank(issue) ==
  IF IsRuleIssue(issue) THEN CheckRank(issue)
  ELSE IF IsOwnIssue(issue) THEN OwnRank(issue)
  ELSE issue.id[3]
InOrder(a, b) ==
  \/ Segment(a) < Segment(b)
  \/ Segment(a) = Segment(b) /\ SubRank(a) <= SubRank(b)

\* The three origins of the claim: deterministic checks, AI image, AI content.
Segment3(issue) ==
  IF IsRuleIssue(issue) \/ IsOwnIssue(issue) THEN 1
  ELSE IF IsAIImageIssue(issue) THEN 2
  ELSE 3

\* C8 as claimed: the issues of a report are rule issues, then AI image
\* issues, then AI content issues: no rule issue follows an AI issue.
C8_ThreeSegments ==
  Returned =>
    \A i, j \in 1..Len(report.issues) :
      i < j => Segment3(report.issues[i]) <= Segment3(report.issues[j])

\* C8 amended: the issues of a report are four segments in this order: the
\* rule validator's issues (check order images, headings, colour contrast,
\* semantic structure, ARIA), the AI image issues (image list order), the
\* checker's own heading-skip, empty-heading and luminosity contrast issues,
\* and the AI content issues (provider order).
C8_FourSegments ==
  Returned =>
    \A i, j \in 1..Len(report.issues) :
      i < j => InOrder(report.issues[i], report.issues[j])

\* C8 witness: a report with issues of all four segments, the rule ones
\* from two different checks.
C8_Witness ==
  /\ Returned
  /\ \A seg \in 1..4 : \E i \in 1..Len(report.issues) : Segment(report.issues[i]) = seg
  /\ \E i, j \in 1..Len(report.issues) :
       /\ IsRuleIssue(report.issues[i])
       /\ IsRuleIssue(report.issues[j])
       /\ CheckRank(report.issues[i]) < CheckRank(report.issues[j])

\* The issue list as a function of the inputs and of what the provider
\* answered to each call, taken by call and not by time of arrival.
ExpectedImageIssues(i) ==
  IF images[i].hasData
  THEN ImageIssues(content, images[i], i, SettledEntry(ImageTask(i)).analysis)
  ELSE << >>
ExpectedIssues ==
  ConvertWCAGResults(validateContent(content, images))
    \o FlatMap(ExpectedImageIssues, Len(images))
    \o checkHeadingStructure(content)
    \o checkColorContrast(content)
    \o (IF SettledEntry(ContentTask).ok
        THEN convertGeminiAnalysisToIssues(SettledEntry(ContentTask).issues)
        ELSE << >>)

\* C9: the issues of a report, and their order, are determined by the
\* content, the images and the provider's answers alone.
C9_DeterministicOrder == Returned => report.issues = ExpectedIssues

\* C9 witness: a report for two analysed images that both produced AI
\* issues, together with AI content issues.
C9_Witness ==
  /\ Returned
  /\ Cardinality(DataImages) >= 2
  /\ \A i \in DataImages : AIIssuesOf(report.issues, i) # << >>
  /\ \E i \in 1..Len(report.issues) : IsAIContentIssue(report.issues[i])

\* C10: no two issues of a report have the same id.
C10_UniqueIds ==
  \A i, j \in 1..Len(report.issues) :
    i # j => report.issues[i].id # report.issues[j].id

\* C10 witness: a report with two issues of the same origin for each of
\* rule results, AI image findings, the checker's heading checks and AI
\* content issues.
C10_Witness ==
  /\ Returned
  /\ \A p \in { {"wcag"}, {"ai-alt-text"}, {"heading-skip", "heading-empty"}, {"gemini"} } :
       Cardinality({i \in 1..Len(report.issues) : Prefix(report.issues[i]) \in p}) >= 2
  /\ \E i \in 1..Len(report.issues) : Prefix(report.issues[i]) = "contrast"

\* The AI path added nothing to the report: no image was analysed into an
\* issue and the content analysis failed or found nothing.
NoAIFindings ==
  \A i \in 1..Len(report.issues) :
    ~IsAIImageIssue(report.issues[i]) /\ ~IsAIContentIssue(report.issues[i])

\* Content that is a single image tag, with one image descriptor that has
\* neither alt nor data.
SingleImageNoAlt ==
  /\ Len(content) = 1
  /\ content[1].k = "img"
  /\ Len(images) = 1
  /\ AltFalsy(images[1].alt)
  /\ ~images[1].hasData

\* C11 as claimed: for a single image tag without alt, one image descriptor
\* without alt or data and no AI findings, the report has exactly one
\* issue, of type alt-text, severity high, autoFixable.
C11_ExactlyOneIssue ==
  (Returned /\ SingleImageNoAlt /\ NoAIFindings) =>
    /\ Len(report.issues) = 1
    /\ report.issues[1].type = "alt-text"
    /\ report.issues[1].severity = "high"
    /\ report.issues[1].autoFixable

\* C11 amended: for that input the report has exactly two issues: the
\* alt-text issue (severity high, autoFixable) of the image check, then a
\* heading issue (severity high, not autoFixable) saying that the page has
\* no H1 heading.
C11_AltTextAndMissingH1 ==
  (Returned /\ SingleImageNoAlt /\ NoAIFindings) =>
    /\ Len(report.issues) = 2
    /\ report.issues[1].type = "alt-text"
    /\ report.issues[1].severity = "high"
    /\ report.issues[1].autoFixable
    /\ report.issues[2].type = "heading"
    /\ report.issues[2].severity = "high"
    /\ ~report.issues[2].autoFixable
    /\ report.issues[2].description = Txt("Page is missing an H1 heading")

\* C11 witness: the report for that input, the content analysis having
\* succeeded with no issue.
C11_Witness ==
  /\ Returned
  /\ SingleImageNoAlt
  /\ NoAIFindings
  /\ SettledEntry(ContentTask).ok
  /\ Len(report.issues) = 2

\* The issues of a report that have a given type.
IssuesOfType(type) == SelectSeq(report.issues, LAMBDA x : x.type = type)

\* Content whose only markup is headings and plain paragraphs, and no images.
OnlyHeadings ==
  /\ \A i \in 1..Len(content) : content[i].k \in {"h", "p"}
  /\ images = << >>

\* An H1 immediately followed by an H3, both with proper text, nothing else.
H1ThenH3 ==
  /\ OnlyHeadings
  /\ Len(Headings(content)) = 2
  /\ Headings(content)[1].level = 1
  /\ Headings(content)[2].level = 3
  /\ \A i \in 1..2 : Headings(content)[i].textLen >= 3

\* C12: for an H1 immediately followed by an H3 and nothing else wrong, the
\* report has exactly one issue of type heading; its severity is medium
\* and its description names the skip from level 1 to level 3.
C12_OneHeadingSkipIssue ==
  (Returned /\ H1ThenH3 /\ NoAIFindings) =>
    /\ Len(IssuesOfType("heading")) = 1
    /\ IssuesOfType("heading")[1].severity = "medium"
    /\ IssuesOfType("heading")[1].description
         = Str("Heading level skips from h to h", "", 1, 3)

\* C12 witness: the report for such a content; next to the heading issue it
\* carries the rule validator's result for the same skip.
C12_Witness ==
  /\ Returned
  /\ H1ThenH3
  /\ NoAIFindings
  /\ Len(IssuesOfType("heading")) = 1
  /\ Len(report.issues) = 2

\* An empty H1 followed by a valid H2, nothing else.
EmptyH1ThenH2 ==
  /\ OnlyHeadings
  /\ Len(Headings(content)) = 2
  /\ Headings(content)[1].level = 1
  /\ Headings(content)[1].textLen = 0
  /\ Headings(content)[2].level = 2
  /\ Headings(content)[2].textLen >= 3

\* C13 as claimed: for an empty H1 followed by a valid H2 the report has
\* exactly one issue of type heading; it has severity high and reports the
\* empty heading.
C13_OneEmptyHeadingIssue ==
  (Returned /\ EmptyH1ThenH2 /\ NoAIFindings) =>
    /\ Len(IssuesOfType("heading")) = 1
    /\ IssuesOfType("heading")[1].severity = "high"
    /\ IssuesOfType("heading")[1].description = Txt("Heading is empty")

\* C13 amended: for that content the report has exactly two issues, both of
\* type heading, severity high, description "Heading is empty", about
\* heading 1: the rule validator's and then the checker's own.
C13_TwoEmptyHeadingIssues ==
  (Returned /\ EmptyH1ThenH2 /\ NoAIFindings) =>
    /\ Len(report.issues) = 2
    /\ Len(IssuesOfType("heading")) = 2
    /\ \A i \in 1..2 :
         /\ report.issues[i].severity = "high"
         /\ report.issues[i].description = Txt("Heading is empty")
         /\ report.issues[i].element = Str("Heading", "", 1, 0)
    /\ IsRuleIssue(report.issues[1])
    /\ Prefix(report.issues[2]) = "heading-empty"

\* C13 witness: the report for such a content, with its two heading issues.
C13_Witness ==
  /\ Returned
  /\ EmptyH1ThenH2
  /\ NoAIFindings
  /\ Len(IssuesOfType("heading")) = 2

\* C14: a request that supplies no content is answered with a structured
\* error (success = false and an error message) by a step that makes no
\* cache call, no checkContent call and leaves the cache as it was.
C14_NoContentRejected ==
  [][\A r \in Requests :
       (req'[r] # req[r] /\ req'[r].body.kind = "absent") =>
         /\ req'[r].stage = "done"
         /\ ~req'[r].response.success
         /\ req'[r].response.error # ""
         /\ req'[r].response.status = BadRequest
         /\ req'[r].calls = << >>
         /\ routeCache' = routeCache]_vars

\* C14 witness: a request without content has been refused while the cache
\* holds the report of an earlier request.
C14_Witness ==
  \E r \in Requests :
    /\ req[r].stage = "done"
    /\ req[r].body.kind = "absent"
    /\ req[r].response.status = BadRequest
    /\ \E k \in RouteKeys : routeCache[k].present

\* C15 as claimed: a request whose content is the empty string is answered
\* without error, with a report that contains a low-severity diagnostic.
C15_EmptyContentDiagnosed ==
  \A r \in Requests :
    (req[r].stage = "done" /\ req[r].body.kind = "empty") =>
      /\ req[r].response.success
      /\ req[r].response.error = ""
      /\ \E i \in 1..Len(req[r].response.result.issues) :
           req[r].response.result.issues[i].severity = "low"

\* C15 amended: the empty string counts as no content.  A request whose
\* content is the empty string is answered with the structured error
\* "Content is required" (status 400, success = false) and no report, by a
\* step that makes no cache call and no checkContent call.
C15_EmptyContentRejected ==
  [][\A r \in Requests :
       (req'[r] # req[r] /\ req'[r].body.kind = "empty") =>
         /\ req'[r].stage = "done"
         /\ ~req'[r].response.success
         /\ req'[r].response.error = "Content is required"
         /\ req'[r].response.status = BadRequest
         /\ req'[r].response.result = NoReport
         /\ req'[r].calls = << >>
         /\ routeCache' = routeCache]_vars

\* C15 witness: a request with the empty string as content has been
\* refused with status 400.
C15_Witness ==
  \E r \in Requests :
    /\ req[r].stage = "done"
    /\ req[r].body.kind = "empty"
    /\ req[r].response.status = BadRequest
    /\ ~req[r].response.success

\* The check of validateContent that produced result number k: the results
\* of the five checks follow each other in wcagResults.
CheckOfResult(k) ==
  LET n1 == Len(validateImages(images))
      n2 == n1 + Len(validateHeadings(content))
      n3 == n2 + Len(validateColorContrast(content))
      n4 == n3 + Len(validateSemanticStructure(content))
  IN IF k <= n1 THEN "images"
     ELSE IF k <= n2 THEN "headings"
     ELSE IF k <= n3 THEN "contrast"
     ELSE IF k <= n4 THEN "structure"
     ELSE "aria"

\* The issue type the claim gives to each check.
TypeOfCheck(check) ==
  CASE check = "images" -> "alt-text"
    [] check = "headings" -> "heading"
    [] check = "contrast" -> "contrast"
    [] check = "structure" -> "semantic"
    [] check = "aria" -> "aria"

IsSkipResult(result) == result.message[1] = "Heading level skips from H to H"

\* C16 as claimed: every failed rule result becomes an issue whose type is
\* that of the check that produced it; every result of the heading check,
\* the hierarchy skip included, becomes an issue of type heading.
C16_TypeByCheck ==
  \A k \in 1..Len(wcagResults) :
    /\ IsRuleIssue(issues[k])
    /\ issues[k].type = TypeOfCheck(CheckOfResult(k))

\* C16 amended: every failed rule result becomes an issue whose type is
\* fixed by the rule id of the result: the results of the image check
\* become alt-text, of the colour-contrast check contrast, of the
\* semantic-structure check semantic, of the ARIA check aria; of the
\* heading check, a missing or multiple H1 and an empty or short heading
\* (rule 2.4.6) become heading, a hierarchy skip (rule 1.3.1) semantic.
C16_TypeByRule ==
  \A k \in 1..Len(wcagResults) :
    /\ IsRuleIssue(issues[k])
    /\ issues[k].id[3] = k - 1
    /\ issues[k].type =
         IF CheckOfResult(k) = "headings" /\ IsSkipResult(wcagResults[k])
         THEN "semantic"
         ELSE TypeOfCheck(CheckOfResult(k))

\* C16 witness: the heading check produced a hierarchy skip, filed as
\* semantic, and another result, filed as heading, next to a result of the
\* image check.
C16_Witness ==
  \E i, j, k \in 1..Len(wcagResults) :
    /\ CheckOfResult(i) = "images"
    /\ CheckOfResult(j) = "headings"
    /\ IsSkipResult(wcagResults[j])
    /\ issues[j].type = "semantic"
    /\ CheckOfResult(k) = "headings"
    /\ issues[k].type = "heading"

Suggested(text) == \E i \in 1..Len(report.suggestions) : report.suggestions[i] = text

\* C17: whenever an image descriptor has no alt text, the report contains
\* an issue with type alt-text, severity high and the description
\* "Image missing alt text".
C17_MissingAltDescription ==
  (Returned /\ \E i \in 1..Len(images) : AltFalsy(images[i].alt)) =>
    \E k \in 1..Len(report.issues) :
      /\ report.issues[k].type = "alt-text"
      /\ report.issues[k].severity = "high"
      /\ report.issues[k].description = Txt("Image missing alt text")

\* C18: for content with an image lacking alt text and an empty heading,
\* the suggestions of the report contain "Add descriptive alt text for
\* screen readers" and "Add descriptive text to the heading".
C18_ActionableSuggestions ==
  ( /\ Returned
    /\ \E i \in 1..Len(content) : content[i].k = "img"
    /\ \E i \in 1..Len(images) : AltFalsy(images[i].alt)
    /\ \E i \in 1..Len(Headings(content)) : Headings(content)[i].textLen = 0 ) =>
    /\ Suggested(Txt("Add descriptive alt text for screen readers"))
    /\ Suggested(Txt("Add descriptive text to the heading"))

\* The outcomes analyzeImage is to turn into the placeholder: the provider
\* call failed, or its reply could not be parsed.
AnalysisFailed(response) == response.kind \in {"reject", "blocked", "badjson"}

\* C20: analyzeImage never throws, and when the provider call or the
\* parsing of its reply fails it returns the placeholder: not decorative,
\* confidence low, alt text "Image description not available", and every
\* accessibility flag false.
C20_PlaceholderOnFailure ==
  analyzed.called =>
    /\ ~analyzed.outcome.thrown
    /\ AnalysisFailed(analyzed.response) =>
         LET a == analyzed.outcome.value
         IN /\ ~a.decorative
            /\ a.confidence = "low"
            /\ a.altText = "Image description not available"
            /\ ~a.accessibility.hasText
            /\ ~a.accessibility.isComplex
            /\ ~a.accessibility.needsLongDescription

\* C20 witness: a call whose reply held braces JSON.parse threw on, and a
\* call the provider rejected, each ended with the placeholder.
C20_Witness ==
  /\ analyzed.called
  /\ analyzed.response.kind \in {"badjson", "reject"}
  /\ ~analyzed.outcome.thrown
  /\ analyzed.outcome.value = getFallbackAnalysis

\* Another active collaborator is editing on the generator tab.
OtherEditsGenerator(userId) ==
  \E i \in 1..Len(getActiveCollaborators) :
    LET c == getActiveCollaborators[i]
    IN c.userId # userId /\ c.isEditing /\ c.activeTab = "generator"
OtherEdits(userId) ==
  \E i \in 1..Len(getActiveCollaborators) :
    getActiveCollaborators[i].userId # userId /\ getActiveCollaborators[i].isEditing
EditorsOnGenerator(userId) ==
  UserIds(SelectSeq(getActiveCollaborators,
                    LAMBDA c : c.userId # userId /\ c.isEditing
                                 /\ c.activeTab = "generator"))

\* C19: when another active collaborator is editing on the generator tab,
\* detectConflict("suggestion", data, u) returns a conflict that lists u
\* first and the editing users after it, and resolveConflict on the id of
\* that conflict returns true; when no other user is editing it returns
\* null.
C19_SuggestionConflict ==
  /\ (detected.called /\ detected.type = "suggestion") =>
       /\ OtherEditsGenerator(detected.userId) =>
            /\ ~detected.result.null
            /\ detected.result.users
                 = << detected.userId >> \o EditorsOnGenerator(detected.userId)
       /\ ~OtherEdits(detected.userId) => detected.result.null
  /\ (resolved.called /\ resolved.returned) => resolved.result


\* Request r has looked its key up, missed, and is awaiting checkContent.
Checking(r) ==
  /\ req[r].stage = "check"
  /\ req[r].calls = << "get", "checkContent" >>

\* Request r has missed, run checkContent and stored its result.
Stored(r) ==
  /\ req[r].stage = "done"
  /\ req[r].calls = << "get", "checkContent", "set" >>

\* The entry the route's cache serves for key k at this moment.
Live(k) == CacheLookup(routeCache, k, now)

\* C21: two requests for the same key that both look the key up before
\* either has stored are not coalesced: both miss and await their own
\* checkContent call, each stores its own result when that call resolves,
\* and the cache then holds the result of the request that stored last.
C21_LastSetWins ==
  [][\A r, s \in Requests :
       ( /\ r # s
         /\ req[r].stage = "check"
         /\ req[s].stage \in {"check", "done"}
         /\ req[s].key = req[r].key
         /\ req'[r] # req[r] ) =>
         /\ Checking(r)
         /\ Checking(s) \/ Stored(s)
         /\ req'[r].calls = << "get", "checkContent", "set" >>
         /\ req'[r].response.success
         /\ ~req'[r].response.cached
         /\ CacheLookup(routeCache', req[r].key, now).hit
         /\ CacheLookup(routeCache', req[r].key, now).value
              = req'[r].response.result]_vars

\* C21 witness: two requests for one key have both missed, computed
\* different reports and stored them; the cache holds one of the two and
\* no time has passed.
C21_Witness ==
  \E r, s \in Requests :
    /\ r # s
    /\ Stored(r)
    /\ Stored(s)
    /\ req[r].key = req[s].key
    /\ req[r].response.result # req[s].response.result
    /\ now = 0
    /\ Live(req[r].key).hit
    /\ Live(req[r].key).value = req[r].response.result

\* C22: two accepted bodies that agree on the first 200 characters of the
\* content and on the number of images have the same cache key; a request
\* that arrives while the report stored by an earlier request for that key
\* is still served is answered with that report, marked cached, after one
\* cache lookup and without a checkContent call, whatever the rest of its
\* content and its images are.
C22_NearDuplicatesShareEntry ==
  [][\A r, s \in Requests : \A b \in RouteBodies :
       ( /\ r # s
         /\ Stored(s)
         /\ b.kind = "text"
         /\ b.head = req[s].body.head
         /\ Len(b.images) = Len(req[s].body.images)
         /\ Live(req[s].key).hit
         /\ Live(req[s].key).value = req[s].response.result
         /\ req[r].stage = "idle"
         /\ req'[r] # req[r]
         /\ req'[r].body = b ) =>
         /\ generateKey(b) = req[s].key
         /\ req'[r].stage = "done"
         /\ req'[r].calls = << "get" >>
         /\ req'[r].response.success
         /\ req'[r].response.cached
         /\ req'[r].response.result = req[s].response.result]_vars

\* C22 witness: a request was answered from the cache with the report
\* computed for an earlier request whose content and images are different.
C22_Witness ==
  \E r, s \in Requests :
    /\ Stored(s)
    /\ req[r].stage = "done"
    /\ req[r].calls = << "get" >>
    /\ req[r].response.cached
    /\ req[r].body.content # req[s].body.content
    /\ req[r].body.images # req[s].body.images
    /\ req[r].response.result = req[s].response.result
    /\ req[r].response.result
         # checkContentNoData(req[r].body.content, req[r].body.images,
                              [success |-> FALSE, issues |-> << >>])


\* A value a failed provider call ended in: {success: false, ...} of the
\* generation routes, the placeholder of getFallbackAnalysis.
FailureValue(route, value) ==
  IF route = "image-analysis" THEN value = getFallbackAnalysis ELSE ~value.success

\* C23: the cached AI routes store only successful results: a request whose
\* provider call failed makes no cache.set call, and no cache holds a
\* failure value, so the next request calls the provider again.
C23_OnlySuccessCached ==
  /\ (aiLast.called /\ aiLast.failed) =>
       \A i \in 1..Len(aiLast.calls) : aiLast.calls[i] # "set"
  /\ \A route \in AIRoutes :
       aiCache[route].present => ~FailureValue(route, aiCache[route].value)

\* C30: addCustomPrompt(u, p) changes the customPrompts of u only: what
\* every other user has, or would get when first loaded, stays as it was.
C30_PromptsIsolated ==
  [][\A v \in PrefUsers :
       (added' # added /\ added'.called /\ v # added'.userId) =>
         customPrompts(v)' = customPrompts(v)]_vars

Recommendation(i) == report.issues[i].recommendation
IsRecommendation(text) == \E i \in 1..Len(report.issues) : Recommendation(i) = text
\* The number of distinct recommendations among the first i issues.
DistinctUpTo(i) == Cardinality({Recommendation(h) : h \in 1..i})

\* C24: the suggestions of a report contain the recommendation of every
\* issue of the report verbatim, contain no string twice, and list the
\* strings in order of first insertion: the recommendation an issue is the
\* first to carry is at the place given by the number of distinct
\* recommendations up to that issue, so that the recommendations come in
\* issue order before the generalized and aggregate suggestions.
C24_SuggestionsDeduplicated ==
  Returned =>
    /\ Cardinality({report.suggestions[k] : k \in 1..Len(report.suggestions)})
         = Len(report.suggestions)
    /\ DistinctUpTo(Len(report.issues)) <= Len(report.suggestions)
    /\ \A i \in 1..Len(report.issues) :
         (DistinctUpTo(i) > DistinctUpTo(i - 1)) =>
           report.suggestions[DistinctUpTo(i)] = Recommendation(i)

\* C24 witness: a report with two issues that share a recommendation, a
\* third issue with another one after them, and a generalized suggestion.
C24_Witness ==
  /\ Returned
  /\ \E i, j, h \in 1..Len(report.issues) :
       /\ i < j /\ j < h
       /\ Recommendation(i) = Recommendation(j)
       /\ Recommendation(h) # Recommendation(i)
  /\ \E l \in 1..Len(report.suggestions) : ~IsRecommendation(report.suggestions[l])

IssueTypes == {"alt-text", "contrast", "heading", "aria", "semantic"}
TypesPresent == {report.issues[i].type : i \in 1..Len(report.issues)}
\* The suggestions that summarise the image analyses.
IsAggregate(text) ==
  text[1] \in
    { " image(s) appear decorative - consider using empty alt text (alt=\"\")",
      "Consider replacing text-in-images with actual HTML text for better accessibility",
      "Complex images (charts, diagrams) should include detailed descriptions or data tables" }
\* The generalized suggestions of a report: what is neither the
\* recommendation of an issue nor an aggregate suggestion.
Generalized ==
  {k \in 1..Len(report.suggestions) :
     /\ ~IsRecommendation(report.suggestions[k])
     /\ ~IsAggregate(report.suggestions[k])}
GeneralizedTypes == {"alt-text", "contrast", "heading"}
GeneralizedFor(type) ==
  CASE type = "alt-text" ->
         Txt("Use AI-generated alt text as a starting point, then refine for your specific context")
    [] type = "contrast" ->
         Txt("Use a color contrast checker tool to verify all text meets WCAG AA standards")
    [] type = "heading" ->
         Txt("Structure headings hierarchically (H1 -> H2 -> H3) to create a logical document outline")
TimesSuggested(text) ==
  Cardinality({k \in 1..Len(report.suggestions) : report.suggestions[k] = text})

\* C25 as claimed: every issue type present among the issues of a report
\* (alt-text, contrast, heading, aria, semantic) appends exactly one
\* generalized suggestion, however many issues of the type exist, and an
\* absent type appends none: there are as many generalized suggestions as
\* types present.
C25_OnePerTypePresent ==
  Returned =>
    /\ TypesPresent \subseteq IssueTypes
    /\ Cardinality(Generalized) = Cardinality(TypesPresent)

\* C25: each of the types alt-text, contrast and heading that is present
\* among the issues of a report appends exactly one generalized suggestion,
\* however many issues of the type exist; an absent type, and the types
\* aria and semantic, append none.
C25_OnePerGeneralizedType ==
  Returned =>
    /\ TypesPresent \subseteq IssueTypes
    /\ \A type \in GeneralizedTypes :
         TimesSuggested(GeneralizedFor(type)) = IF type \in TypesPresent THEN 1 ELSE 0
    /\ Cardinality(Generalized) = Cardinality(TypesPresent \cap GeneralizedTypes)

\* C25 witness: a report with two alt-text issues and an aria issue and
\* without a contrast issue.
C25_Witness ==
  /\ Returned
  /\ Len(IssuesOfType("alt-text")) >= 2
  /\ "aria" \in TypesPresent
  /\ "contrast" \notin TypesPresent

\* The images whose analysis succeeded and found text in the image.
TextImages ==
  {i \in DataImages :
     /\ SettledEntry(ImageTask(i)).ok
     /\ SettledEntry(ImageTask(i)).analysis.accessibility.hasText}
WindowLen(i) == extractImageContextLen(content, images[i].src)
HasTextInImageIssue(i) ==
  \E k \in 1..Len(report.issues) : report.issues[k].id = Id("text-in-image", "", i - 1)

\* C26 as claimed: an image has a textual equivalent exactly when the
\* stripped window around its reference has at least 50 characters, so a
\* window of exactly 50 characters suppresses the text-in-image issue.
C26_AtLeastFifty ==
  Returned => \A i \in TextImages : HasTextInImageIssue(i) <=> WindowLen(i) < 50

\* C26: an image has a textual equivalent exactly when the stripped window
\* around its reference has more than 50 characters: a window of 51
\* characters suppresses the text-in-image issue, one of 50 does not.
C26_MoreThanFifty ==
  Returned => \A i \in TextImages : HasTextInImageIssue(i) <=> WindowLen(i) <= 50

\* C26 witness: a report on two images with text in them, one with a
\* window of 51 characters and no text-in-image issue, one with a window
\* of 50 characters and the issue.
C26_Witness ==
  /\ Returned
  /\ \E i, j \in TextImages :
       /\ WindowLen(i) = 51 /\ ~HasTextInImageIssue(i)
       /\ WindowLen(j) = 50 /\ HasTextInImageIssue(j)

\* C27: the contrast issues of a report come only from the two-colour
\* contrast-ratio rule; the single-colour luminosity heuristic contributes
\* none, so that content which declares a dark text colour alone, or a
\* colour pair of ratio 4.5 or more, has no contrast issue.
C27_NoLuminosityIssues ==
  Returned =>
    \A k \in 1..Len(report.issues) :
      report.issues[k].type = "contrast" => IsRuleIssue(report.issues[k])

Level(i) == Headings(content)[i].level
Skips(i) == i > 1 /\ Level(i) > Level(i - 1) + 1
\* The hierarchy-skip findings of the report for heading number i: the one
\* of the validator and the one of the checker's own heading check.
IsSkipOf(issue, i) ==
  \/ /\ IsRuleIssue(issue)
     /\ issue.description[1] = "Heading level skips from H to H"
     /\ issue.element = Str("Heading", "", i, 0)
  \/ issue.id = Id("heading-skip", "", i - 1)
SkipsOf(i) == SelectSeq(report.issues, LAMBDA x : IsSkipOf(x, i))

\* C28: the heading check compares adjacent headings only: heading i gets
\* a medium-severity hierarchy-skip finding (one of the validator, one of
\* the checker's own check) exactly when level(i) > level(i-1) + 1, and the
\* finding names level(i-1) + 1 as the expected level; a decrease, or a gap
\* relative to a heading further back, gives none.
C28_AdjacentHeadingsOnly ==
  Returned =>
    \A i \in 1..Len(Headings(content)) :
      LET found == SkipsOf(i)
      IN /\ Len(found) = IF Skips(i) THEN 2 ELSE 0
         /\ \A k \in 1..Len(found) :
              /\ found[k].severity = "medium"
              /\ found[k].recommendation[3] = Level(i - 1) + 1

\* C28 witness: a report on headings H1, H3, H3, H1: the second heading
\* has the findings, the third (a gap relative to the first heading only)
\* and the fourth (a decrease by two levels) have none.
C28_Witness ==
  /\ Returned
  /\ Len(Headings(content)) = 4
  /\ Skips(2) /\ Len(SkipsOf(2)) = 2
  /\ Level(3) > Level(1) + 1 /\ SkipsOf(3) = << >>
  /\ Level(4) < Level(3) - 1 /\ SkipsOf(4) = << >>

AnalysisOf(i) == SettledEntry(ImageTask(i)).analysis
\* Every image with data is analysed: analyzeImage resolves to the
\* placeholder analysis when the provider call fails.
AnalysedImages == DataImages
\* The positions in the report of the AI issues of image i with a prefix.
AIIssueAt(prefix, i) ==
  {k \in 1..Len(report.issues) : report.issues[k].id = Id(prefix, "", i - 1)}
Count(cond) == IF cond THEN 1 ELSE 0
AIImageIssuesAt == {k \in 1..Len(report.issues) : IsAIImageIssue(report.issues[k])}

\* C29: for every analysed image, in image list order, the report has one
\* high alt-text issue carrying the suggested alt text if the analysis is
\* non-decorative and the image has no alt, one high alt-text issue if the
\* image holds text and the content has no textual equivalent, one medium
\* alt-text issue if the image needs a long description, and no other AI
\* image issue.
C29_AIImageIssues ==
  Returned =>
    /\ \A i \in AnalysedImages :
         LET analysis == AnalysisOf(i)
             alt == AIIssueAt("ai-alt-text", i)
             text == AIIssueAt("text-in-image", i)
             complex == AIIssueAt("complex-image", i)
         IN /\ Cardinality(alt) = Count(AltFalsy(images[i].alt) /\ ~analysis.decorative)
            /\ Cardinality(text)
                 = Count(/\ analysis.accessibility.hasText
                         /\ ~hasTextAlternative(content, images[i].src))
            /\ Cardinality(complex) = Count(analysis.accessibility.needsLongDescription)
            /\ \A k \in alt :
                 /\ report.issues[k].severity = "high"
                 /\ report.issues[k].recommendation
                      = Str("Suggested alt text: ", analysis.altText, 0, 0)
            /\ \A k \in text : report.issues[k].severity = "high"
            /\ \A k \in complex : report.issues[k].severity = "medium"
    /\ \A k \in AIImageIssuesAt :
         /\ report.issues[k].type = "alt-text"
         /\ report.issues[k].id[3] + 1 \in AnalysedImages
    /\ \A k, l \in AIImageIssuesAt :
         report.issues[k].id[3] < report.issues[l].id[3] => k < l

\* C29 witness: a report on two analysed images, the first with all three
\* AI issues, the second with at least one.
C29_Witness ==
  /\ Returned
  /\ \E i, j \in AnalysedImages :
       /\ i < j
       /\ Len(AIIssuesOf(report.issues, i)) = 3
       /\ Len(AIIssuesOf(report.issues, j)) >= 1
  /\ \E i \in AnalysedImages :
       /\ AltFalsy(images[i].alt) /\ AnalysisOf(i).decorative
       /\ AIIssueAt("ai-alt-text", i) = {}

====
